---- MODULE Spec2Model ----
(***************************************************************************)
(* Verification model of the documentation-drift tooling:                  *)
(*   - skills/documenting/scripts/drift_detector.py  (glob matcher, scan,  *)
(*     check and hook modes)                                               *)
(*   - project-skills/service-skill-builder/scripts/                       *)
(*     generate_service_skill.py  (ServiceSkillGenerator.generate_skill)   *)
(*   - project-skills/service-skill-builder/scripts/skill_health_check.py  *)
(*   - project-skills/service-skill-builder/scripts/install_hooks.py and   *)
(*     project-skills/service-skills-set/install-service-skills.py         *)
(*     (install_git_hooks, install_settings)                               *)
(*   - hooks/agent_context.py  (AgentContext)                              *)
(*   - skills/documenting/scripts/changelog/add_entry.py and               *)
(*     skills/documenting/scripts/orchestrator.py  (document_change)       *)
(*                                                                         *)
(* A path or a pattern is the sequence of its "/"-separated segments; a    *)
(* segment is the sequence of its characters, so that fnmatch is computed  *)
(* character by character as the library does.                             *)
(***************************************************************************)
EXTENDS Integers, Sequences, FiniteSets, TLC

VARIABLES
    gPath,      \* SpecGlob: the raw path handed to _match_glob
    gPattern,   \* SpecGlob: the raw pattern handed to _match_glob
    gPc,        \* SpecGlob: "input" before the call, "done" after it
    gResult,    \* SpecGlob: the value _match_glob returned
    memories,   \* .serena/memories/*.md in directory order: [name, content]
    commits,    \* git history, newest first: the set of files of each commit
    newer,      \* <<file, memory>>: the file's mtime is later than the memory's
    out,        \* what the last drift_detector command printed and returned
    skillDir,   \* SpecGen: .claude/skills/<name>/ exists
    skillMd,    \* SpecGen: SKILL.md: [exists, lines]
    brief,      \* SpecGen: REFINEMENT_BRIEF.md exists
    scripts,    \* SpecGen: scripts/<name> -> "absent" | "generated" | "edited"
    genOut,     \* SpecGen: the last generate_skill run and what it met
    git,        \* SpecGit: what the git binary meets: [kind, dirty, staged]
    call,       \* SpecGit: the change-set query in progress and its result
    healthWorld, \* SpecHealth: compose services and the skill packages on disk
    healthOut,  \* SpecHealth: what skill_health_check.py computed and printed
    githooks,   \* SpecInstall: .githooks/pre-commit and pre-push
    gitDir,     \* SpecInstall: .git/ and the hooks activated in .git/hooks/
    inst,       \* SpecInstall: the last installer run and what it met
    agentIn,    \* SpecAgent: the hook's stdin and environment
    agent,      \* SpecAgent: the AgentContext object and where the hook is
    agentOut,   \* SpecAgent: the call that ended the hook and what it printed
    changelog,  \* SpecChangelog: CHANGELOG.md: [exists, text]
    chOut,      \* SpecChangelog: the last call and what it met and returned
    chCalls,    \* SpecChangelog: the calls made so far
    settings,   \* SpecSettings: .claude/settings.json: [exists, kind, data]
    setOut      \* SpecSettings: the last install_settings run and what it met

globVars == <<gPath, gPattern, gPc, gResult>>

driftVars == <<memories, commits, newer, out>>

genVars == <<skillDir, skillMd, brief, scripts, genOut>>

gitVars == <<git, call>>

healthVars == <<healthWorld, healthOut>>

installVars == <<githooks, gitDir, inst>>

agentVars == <<agentIn, agent, agentOut>>

changelogVars == <<changelog, chOut, chCalls>>

settingsVars == <<settings, setOut>>

\* The parts modelled further down, which the specifications above them
\* leave alone.
restVars ==
    <<agentIn, agent, agentOut, changelog, chOut, chCalls, settings, setOut>>

vars ==
    <<gPath, gPattern, gPc, gResult, memories, commits, newer, out,
      skillDir, skillMd, brief, scripts, genOut, git, call,
      healthWorld, healthOut, githooks, gitDir, inst,
      agentIn, agent, agentOut, changelog, chOut, chCalls,
      settings, setOut>>

----------------------------------------------------------------------------
(* Bounds *)

MaxPathLen == 3
MaxPatLen == 3
MaxCommits == 2
MaxMems == 4
MaxRuns == 3

----------------------------------------------------------------------------
(* Segments *)

EmptySeg == <<>>
DotSeg == <<".">>
StarStar == <<"*", "*">>

\* Raw path segments: the empty segment (from a leading, doubled or trailing
\* "/"), ".", and two file or directory names.
PathSegs == {EmptySeg, DotSeg, <<"a">>, <<"a", "b">>}

\* Raw pattern segments: "**", "*", a literal, and a name with "?".
PatSegs == {StarStar, <<"*">>, <<"a">>, <<"?", "b">>}

SeqsUpTo(S, n) == UNION {[1..k -> S] : k \in 1..n}

RawPaths == SeqsUpTo(PathSegs, MaxPathLen)
RawPatterns == SeqsUpTo(PatSegs, MaxPatLen)

----------------------------------------------------------------------------
(* Path(...).as_posix().split("/") *)

\* Number of leading empty segments of a raw "/"-split string.
RECURSIVE LeadingEmpty(_)
LeadingEmpty(raw) ==
    IF raw = <<>> \/ Head(raw) # EmptySeg THEN 0
    ELSE 1 + LeadingEmpty(Tail(raw))

\* Number of "/" the raw string starts with: a string that is nothing but
\* m empty segments is m-1 slashes.
LeadingSlashes(raw) ==
    IF LeadingEmpty(raw) = Len(raw) THEN Len(raw) - 1 ELSE LeadingEmpty(raw)

IsAbsolute(raw) == LeadingSlashes(raw) >= 1

\* pathlib drops empty and "." segments ("a//b", "a/./b", "a/" all give a/b)
\* and keeps "..".
NameParts(raw) == SelectSeq(raw, LAMBDA s : s # EmptySeg /\ s # DotSeg)

\* The root pathlib keeps: none, "/" or (for exactly two slashes) "//";
\* given here as the segments str.split("/") makes of it.
RootParts(raw) ==
    CASE LeadingSlashes(raw) = 0 -> <<>>
      [] LeadingSlashes(raw) = 2 -> <<EmptySeg, EmptySeg>>
      [] OTHER -> <<EmptySeg>>

\* as_posix() of a path with no name is "." (relative) or the bare root,
\* whose split ends in one more empty segment.
PosixParts(raw) ==
    IF NameParts(raw) = <<>>
    THEN IF IsAbsolute(raw) THEN RootParts(raw) \o <<EmptySeg>> ELSE <<DotSeg>>
    ELSE RootParts(raw) \o NameParts(raw)

----------------------------------------------------------------------------
(* fnmatch.fnmatch on one segment: "*" any run of characters, "?" exactly   *)
(* one character, anything else itself (the alphabet holds no "[").         *)

RECURSIVE fnmatch(_, _)
fnmatch(name, pat) ==
    IF pat = <<>> THEN name = <<>>
    ELSE IF Head(pat) = "*"
         THEN fnmatch(name, Tail(pat))
              \/ (name # <<>> /\ fnmatch(Tail(name), pat))
    ELSE IF Head(pat) = "?"
         THEN name # <<>> /\ fnmatch(Tail(name), Tail(pat))
    ELSE name # <<>> /\ Head(name) = Head(pat)
         /\ fnmatch(Tail(name), Tail(pat))

\* Mutations of the "**" loop's range: one that never lets "**" stand for
\* zero segments, one that stops a segment short.
StarStarRangeNoZero(pp) == 1..Len(pp)

StarStarRangeShort(pp) == 0..(Len(pp) - 1)

\* The split points the "**" loop tries: range(len(pp) + 1).
StarStarRange(pp) == 0..Len(pp)

RECURSIVE match(_, _)
match(pp, pat) ==
    IF pat = <<>> THEN pp = <<>>
    ELSE IF Head(pat) = StarStar
         THEN \E i \in StarStarRange(pp) :
                  match(SubSeq(pp, i + 1, Len(pp)), Tail(pat))
    ELSE IF pp = <<>> THEN FALSE
    ELSE fnmatch(Head(pp), Head(pat)) /\ match(Tail(pp), Tail(pat))

match_glob(path, pattern) == match(PosixParts(path), PosixParts(pattern))

----------------------------------------------------------------------------
(* The drift detector's world: memories, git history, working tree *)

\* The files git reports, as normalised relative paths: a/ab and ab.
FileA == << <<"a">>, <<"a", "b">> >>
FileB == << <<"a", "b">> >>
NoFile == <<>>

\* git lists the files of a commit or a diff in path order.
FileOrder == <<FileA, FileB>>
DriftFiles == {FileOrder[i] : i \in 1..Len(FileOrder)}

\* Memory stems; sorted() orders the *.md files by them.
MemNames == {1, 2}
NoName == 0

\* What a memory file can hold: frontmatter that yaml loads to something
\* that is no mapping, and mappings without a
\* tracks key, with an empty tracks list, and with tracks a/** and
\* (a/*, **/?b).
TracksA == << << <<"a">>, StarStar >> >>
TracksB == << << <<"a">>, <<"*">> >>, << StarStar, <<"?", "b">> >> >>

MemContents ==
    { [fm |-> "nonmapping", hasTracks |-> FALSE, tracks |-> <<>>, updated |-> ""],
      [fm |-> "mapping", hasTracks |-> FALSE, tracks |-> <<>>, updated |-> "2026-02-01"],
      [fm |-> "mapping", hasTracks |-> TRUE, tracks |-> <<>>, updated |-> "2026-02-01"],
      [fm |-> "mapping", hasTracks |-> TRUE, tracks |-> TracksA, updated |-> "2026-02-01"],
      [fm |-> "mapping", hasTracks |-> TRUE, tracks |-> TracksB, updated |-> ""] }

\* Frontmatter that yaml cannot parse (yaml.YAMLError), in a memory whose
\* text lists the tracks a/**.
MalformedContent ==
    [fm |-> "malformed", hasTracks |-> TRUE, tracks |-> TracksA,
     updated |-> "2026-02-01"]

Take(s, n) == SubSeq(s, 1, IF n < Len(s) THEN n ELSE Len(s))

Range(s) == {s[i] : i \in 1..Len(s)}

RECURSIVE Flatten(_)
Flatten(ss) == IF ss = <<>> THEN <<>> ELSE Head(ss) \o Flatten(Tail(ss))

\* The files of a set in git's listing order.
Listing(S) == SelectSeq(FileOrder, LAMBDA f : f \in S)

Perms(S) ==
    {p \in [1..Cardinality(S) -> S] : \A i, j \in 1..Cardinality(S) :
                                          i # j => p[i] # p[j]}

----------------------------------------------------------------------------
(* Frontmatter *)

\* extract_frontmatter: {} without frontmatter and when yaml raises
\* YAMLError, else yaml's value or {}.  extract_tracks calls .get on it,
\* which raises on a value that is no mapping.
extract_tracks_raises(content) == content.fm = "nonmapping"

extract_tracks(content) ==
    IF content.fm = "mapping" /\ content.hasTracks THEN content.tracks
    ELSE <<>>

extract_updated(content) ==
    IF content.fm = "mapping" THEN content.updated ELSE ""

----------------------------------------------------------------------------
(* File matching *)

\* _match_glob on the detector's files and patterns, computed once.
DriftPatterns == UNION {Range(c.tracks) : c \in MemContents}

MatchTable ==
    [f \in DriftFiles |-> [p \in DriftPatterns |-> match_glob(f, p)]]

\* Mutations: empty tracks taken as "track everything"; every file kept.
match_files_to_tracks_EmptyIsAll(files, tracks) ==
    IF tracks = <<>> THEN files
    ELSE SelectSeq(files, LAMBDA f :
             \E i \in 1..Len(tracks) : MatchTable[f][tracks[i]])

match_files_to_tracks_KeepAll(files, tracks) ==
    IF tracks = <<>> THEN <<>> ELSE files

\* Every file, in order and once per occurrence, that some pattern matches.
match_files_to_tracks(files, tracks) ==
    SelectSeq(files, LAMBDA f :
        \E i \in 1..Len(tracks) : MatchTable[f][tracks[i]])

----------------------------------------------------------------------------
(* Git helpers *)

\* git log -N --name-only --format=: the files of the last N commits,
\* commit after commit, a file once for every commit that touched it.
get_recent_modified_files(n) ==
    Flatten([i \in 1..Len(Take(commits, n)) |-> Listing(commits[i])])

\* git diff HEAD --name-only lists the files that differ from HEAD (dirty)
\* and git diff --cached --name-only those of them that are staged; the
\* result is list({...}) of both outputs: the distinct names, in whatever
\* order the set iterates.
get_session_written_files(dirty, staged) ==
    Perms(Range(Listing(dirty) \o Listing(staged)))

----------------------------------------------------------------------------
(* Core logic *)

RECURSIVE InsertByName(_, _)
InsertByName(m, s) ==
    IF s = <<>> THEN <<m>>
    ELSE IF m.name <= Head(s).name THEN <<m>> \o s
    ELSE <<Head(s)>> \o InsertByName(m, Tail(s))

\* Mutation: the directory order as it comes.
sorted_Unsorted(s) == s

RECURSIVE sorted(_)
sorted(s) ==
    IF s = <<>> THEN <<>> ELSE InsertByName(Head(s), sorted(Tail(s)))

AnyRaises(mems) ==
    \E i \in 1..Len(mems) : extract_tracks_raises(mems[i].content)

Finding(m, modified) ==
    [name |-> m.name,
     files |-> Take(match_files_to_tracks(modified, extract_tracks(m.content)), 5),
     updated |-> extract_updated(m.content)]

IsStale(m, modified) ==
    /\ extract_tracks(m.content) # <<>>
    /\ match_files_to_tracks(modified, extract_tracks(m.content)) # <<>>

\* The stale dict, as the sequence of its items in insertion order.
scan_memories(mems, modified) ==
    LET keep == SelectSeq(sorted(mems), LAMBDA m : IsStale(m, modified))
    IN  [i \in 1..Len(keep) |-> Finding(keep[i], modified)]

Line(tag, n, text, f) == [tag |-> tag, n |-> n, text |-> text, file |-> f]

\* Mutation: every file of the finding listed, not the first three.
ReportBlock_AllFiles(info) ==
    <<Line("name", info.name, "", NoFile),
      Line("updated", 0, info.updated, NoFile)>>
    \o [i \in 1..Len(info.files) |-> Line("modified", 0, "", info.files[i])]
    \o <<Line("blank", 0, "", NoFile)>>

\* The lines of one finding: its name, "Last updated:", up to three
\* "Modified:" lines and an empty line.
ReportBlock(info) ==
    <<Line("name", info.name, "", NoFile),
      Line("updated", 0, info.updated, NoFile)>>
    \o [i \in 1..Len(Take(info.files, 3)) |->
            Line("modified", 0, "", info.files[i])]
    \o <<Line("blank", 0, "", NoFile)>>

format_scan_report(stale) ==
    IF stale = <<>> THEN <<Line("uptodate", 0, "", NoFile)>>
    ELSE <<Line("header", Len(stale), "", NoFile)>>
         \o Flatten([i \in 1..Len(stale) |-> ReportBlock(stale[i])])
         \o <<Line("footer", 0, "", NoFile)>>

----------------------------------------------------------------------------
(* Subcommands *)

DefaultSince == 30
SinceValues == {1, DefaultSince}

NoOut ==
    [cmd |-> "none", arg |-> 0, exit |-> 0, kind |-> "none",
     modified |-> <<>>, stale |-> <<>>, names |-> <<>>, files |-> <<>>,
     lines |-> <<>>, chars |-> 0]

\* An uncaught exception: a traceback on stderr, nothing on stdout, exit 1.
Crash(cmd, arg, modified) ==
    [NoOut EXCEPT !.cmd = cmd, !.arg = arg, !.exit = 1, !.kind = "crash",
                  !.modified = modified]

MemNamesIn(mems) == {mems[i].name : i \in 1..Len(mems)}

MemoryNamed(n) ==
    LET i == CHOOSE i \in 1..Len(memories) : memories[i].name = n
    IN  memories[i]

\* scan [--since N]
cmd_scan(since) ==
    LET modified == get_recent_modified_files(since)
        stale == scan_memories(memories, modified)
    IN  /\ out' = IF AnyRaises(memories) THEN Crash("scan", since, modified)
                  ELSE [NoOut EXCEPT !.cmd = "scan", !.arg = since,
                                     !.exit = IF stale # <<>> THEN 1 ELSE 0,
                                     !.kind = "report",
                                     !.modified = modified,
                                     !.stale = stale,
                                     !.lines = format_scan_report(stale)]
        /\ UNCHANGED <<memories, commits, newer>>

\* check <memory>; NoName stands for the missing argument.
cmd_check(name) ==
    LET modified == get_recent_modified_files(DefaultSince)
        said(kind, code, files) ==
            [NoOut EXCEPT !.cmd = "check", !.arg = name, !.exit = code,
                          !.kind = kind, !.modified = modified,
                          !.files = files]
    IN  /\ out' =
            IF name = NoName THEN said("usage", 1, <<>>)
            ELSE IF name \notin MemNamesIn(memories)
                 THEN said("notfound", 1, <<>>)
            ELSE LET content == MemoryNamed(name).content
                     tracks == extract_tracks(content)
                     matched == match_files_to_tracks(modified, tracks)
                 IN  IF extract_tracks_raises(content)
                     THEN Crash("check", name, <<>>)
                     ELSE IF tracks = <<>> THEN said("notracks", 0, <<>>)
                     ELSE IF matched # <<>>
                          THEN said("stale", 1, Take(matched, 3))
                     ELSE said("uptodate", 0, <<>>)
        /\ UNCHANGED <<memories, commits, newer>>

\* hook: names of the memories whose tracks the session's files touch.
HookNames(mems, session_files) ==
    LET keep == SelectSeq(sorted(mems), LAMBDA m :
                    /\ extract_tracks(m.content) # <<>>
                    /\ match_files_to_tracks(
                           session_files, extract_tracks(m.content)) # <<>>)
    IN  [i \in 1..Len(keep) |-> keep[i].name]

\* Mutation: the overflow counter already with three names.
HookMessage_OverflowAtThree(stale_names) ==
    <<Line("count", Len(stale_names), "", NoFile)>>
    \o [i \in 1..Len(Take(stale_names, 3)) |->
           Line("name", stale_names[i], "", NoFile)]
    \o (IF Len(stale_names) >= 3
        THEN <<Line("more", Len(stale_names) - 3, "", NoFile)>>
        ELSE <<>>)

\* The parts of msg: the count, the first three names, and the suffix
\* " (+k more)" when there are more than three.
HookMessage(stale_names) ==
    <<Line("count", Len(stale_names), "", NoFile)>>
    \o [i \in 1..Len(Take(stale_names, 3)) |->
           Line("name", stale_names[i], "", NoFile)]
    \o (IF Len(stale_names) > 3
        THEN <<Line("more", Len(stale_names) - 3, "", NoFile)>>
        ELSE <<>>)

\* The number of characters of a memory's stem: memory 1 is "m1", the
\* others have names as long as a file name can be (255 bytes with ".md").
StemLen(n) == IF n = 1 THEN 2 ELSE 252

RECURSIVE Digits(_)
Digits(n) == IF n < 10 THEN 1 ELSE 1 + Digits(n \div 10)

RECURSIVE SumStemLen(_)
SumStemLen(names) ==
    IF names = <<>> THEN 0 ELSE StemLen(Head(names)) + SumStemLen(Tail(names))

\* len(msg), from the f-string of msg, ", ".join(...) and suffix.
MessageLen(stale_names) ==
    LET shown == Take(stale_names, 3)
    IN  Len("[Docs Drift] ") + Digits(Len(stale_names)) + Len(" memor")
        + Len(IF Len(stale_names) = 1 THEN "y" ELSE "ies") + Len(" ")
        + Len("may need updating: ")
        + SumStemLen(shown) + Len(", ") * (Len(shown) - 1)
        + (IF Len(stale_names) > 3
           THEN Len(" (+") + Digits(Len(stale_names) - 3) + Len(" more)")
           ELSE 0)
        + Len(". Run /documenting to review.")

cmd_hook(dirty, staged) ==
    \E session_files \in get_session_written_files(dirty, staged) :
        /\ out' =
            IF session_files = <<>>
            THEN [NoOut EXCEPT !.cmd = "hook", !.kind = "silent"]
            ELSE IF AnyRaises(memories)
                 THEN Crash("hook", 0, session_files)
            ELSE LET stale_names == HookNames(memories, session_files)
                 IN  [NoOut EXCEPT
                        !.cmd = "hook",
                        !.kind = IF stale_names # <<>> THEN "json"
                                 ELSE "silent",
                        !.modified = session_files,
                        !.names = stale_names,
                        !.lines =
                            IF stale_names = <<>> THEN <<>>
                            ELSE HookMessage(stale_names),
                        !.chars =
                            IF stale_names = <<>> THEN 0
                            ELSE MessageLen(stale_names)]
        /\ UNCHANGED <<memories, commits, newer>>

----------------------------------------------------------------------------
(* What happens around the detector: memories are written and files are   *)
(* committed.  Every change invalidates the last output.                   *)

WriteMemory(n, c) ==
    /\ memories' =
          IF n \in MemNamesIn(memories)
          THEN [i \in 1..Len(memories) |->
                   IF memories[i].name = n
                   THEN [name |-> n, content |-> c] ELSE memories[i]]
          ELSE Append(memories, [name |-> n, content |-> c])
    /\ (n \in MemNamesIn(memories) => MemoryNamed(n).content # c)
    /\ newer' = {p \in newer : p[2] # n}
    /\ out' = NoOut
    /\ UNCHANGED commits

\* A commit of the files S, edited just before it.
Commit(S) ==
    /\ Len(commits) < MaxCommits
    /\ commits' = <<S>> \o commits
    /\ newer' = newer \cup {<<f, n>> : f \in S, n \in MemNamesIn(memories)}
    /\ out' = NoOut
    /\ UNCHANGED memories

----------------------------------------------------------------------------
(* ServiceSkillGenerator.generate_skill: the skill package on disk *)

\* SKILL_TEMPLATE, line by line: the part above the protected region is
\* one line per rendering of the service's description, the region is the
\* two sentinel lines around a title and a placeholder, the part below is
\* fixed.
SemanticStart == "<!-- SEMANTIC_START -->"
SemanticEnd == "<!-- SEMANTIC_END -->"
RegionTitle == "## Semantic Deep Dive (Human/Agent Refined)"
RegionPlaceholder ==
    "[This section is protected from automatic overwrites. Add your expert findings here.]"
TemplateTail == "## Scripts ... ## References"

\* What the SSOT analysis can find for the description.
Descriptions == {"d1", "d2"}

TemplateHead(d) == IF d = "d1" THEN "# Skill (d1)" ELSE "# Skill (d2)"

\* SKILL_TEMPLATE.format(...)
SKILL_TEMPLATE(d) ==
    <<TemplateHead(d), SemanticStart, RegionTitle, RegionPlaceholder,
      SemanticEnd, TemplateTail>>

\* What a human or an agent writes between the sentinels.
HumanRegions ==
    { <<RegionTitle, "finding 1">>,
      <<"finding 1", "", "### finding 2">>,
      <<>> }

Absent == [exists |-> FALSE, lines |-> <<>>]

ScriptNames ==
    {"db_helper.py", "db_query.py", "health_check.py", "code_quality.py",
     "log_analyzer.py"}

\* The services of the compose files, and a name that is none of them.
Services == {"svc", "unknown"}

NoGen ==
    [status |-> "none", service |-> "", update |-> FALSE,
     brief_only |-> FALSE, d |-> "", before |-> Absent]

\* Index of the first line equal to x at or after position from, 0 if none.
RECURSIVE IndexFrom(_, _, _)
IndexFrom(lines, x, from) ==
    IF from > Len(lines) THEN 0
    ELSE IF lines[from] = x THEN from
    ELSE IndexFrom(lines, x, from + 1)

StartAt(lines) == IndexFrom(lines, SemanticStart, 1)

EndAfterStart(lines) ==
    IF StartAt(lines) = 0 THEN 0
    ELSE IndexFrom(lines, SemanticEnd, StartAt(lines) + 1)

Balanced(lines) == StartAt(lines) # 0 /\ EndAfterStart(lines) # 0

\* A start sentinel with no end sentinel after it, or an end sentinel with
\* no start sentinel before it.
Unbalanced(lines) ==
    \/ StartAt(lines) # 0 /\ EndAfterStart(lines) = 0
    \/ StartAt(lines) = 0 /\ IndexFrom(lines, SemanticEnd, 1) # 0

\* The lines strictly between the sentinels.
Region(lines) == SubSeq(lines, StartAt(lines) + 1, EndAfterStart(lines) - 1)

Outside(lines) ==
    SubSeq(lines, 1, StartAt(lines))
    \o SubSeq(lines, EndAfterStart(lines), Len(lines))

generate_skill(service_name, update, brief_only, d) ==
    LET ran(st) ==
            [status |-> st, service |-> service_name, update |-> update,
             brief_only |-> brief_only, d |-> d, before |-> skillMd]
    IN  IF service_name = "unknown"
        THEN \* "Error: Service ... not found"
             /\ genOut' = ran("notfound")
             /\ UNCHANGED <<skillDir, skillMd, brief, scripts>>
        ELSE IF ~brief_only /\ skillDir /\ ~update
        THEN \* "already exists. Use --update to overwrite."
             /\ genOut' = ran("exists")
             /\ UNCHANGED <<skillDir, skillMd, brief, scripts>>
        ELSE /\ skillDir' = TRUE
             /\ skillMd' =
                   IF (~skillMd.exists \/ update) /\ ~brief_only
                   THEN [exists |-> TRUE, lines |-> SKILL_TEMPLATE(d)]
                   ELSE skillMd
             /\ brief' = (brief \/ brief_only)
             /\ scripts' =
                   [s \in ScriptNames |->
                       IF scripts[s] = "absent" THEN "generated"
                       ELSE IF s = "db_query.py" /\ update THEN "generated"
                       ELSE scripts[s]]
             /\ genOut' = ran("done")

\* A human or an agent refines the protected region of SKILL.md.
EditRegion(r) ==
    /\ skillMd.exists
    /\ Balanced(skillMd.lines)
    /\ Region(skillMd.lines) # r
    /\ skillMd' =
          [skillMd EXCEPT !.lines =
              SubSeq(skillMd.lines, 1, StartAt(skillMd.lines))
              \o r
              \o SubSeq(skillMd.lines, EndAfterStart(skillMd.lines),
                        Len(skillMd.lines))]
    /\ genOut' = NoGen
    /\ UNCHANGED <<skillDir, brief, scripts>>

\* An edit that loses one of the sentinel lines.
DeleteSentinel(x) ==
    /\ skillMd.exists
    /\ IndexFrom(skillMd.lines, x, 1) # 0
    /\ skillMd' =
          [skillMd EXCEPT !.lines =
              SubSeq(skillMd.lines, 1, IndexFrom(skillMd.lines, x, 1) - 1)
              \o SubSeq(skillMd.lines, IndexFrom(skillMd.lines, x, 1) + 1,
                        Len(skillMd.lines))]
    /\ genOut' = NoGen
    /\ UNCHANGED <<skillDir, brief, scripts>>

\* A generated script is filled in by hand.
EditScript(s) ==
    /\ scripts[s] = "generated"
    /\ scripts' = [scripts EXCEPT ![s] = "edited"]
    /\ genOut' = NoGen
    /\ UNCHANGED <<skillDir, skillMd, brief>>

----------------------------------------------------------------------------
(* The change-set queries as processes: subprocess.run starts git, waits    *)
(* for it to exit and hands back what it printed.                           *)

\* What the git binary can meet: a repository with commits, a repository
\* whose branch has no commit yet, a directory that is no repository, and
\* a PATH without git.
GitKinds == {"ok", "unborn", "norepo", "nobinary"}

NoCall ==
    [fn |-> "none", n |-> 0, pc |-> "idle", rc |-> <<>>, stdout |-> <<>>,
     result |-> <<>>, raised |-> FALSE]

\* The command lines, in the order the functions run them.
GitCommands(fn) ==
    IF fn = "recent" THEN <<"log">> ELSE <<"diff HEAD", "diff --cached">>

\* The return code git exits with.
GitReturnCode(cmd) ==
    CASE git.kind = "ok" -> 0
      [] git.kind = "unborn" /\ cmd = "diff --cached" -> 0
      [] OTHER -> 128

\* What git prints on stdout: the log of the last n commits, the files that
\* differ from HEAD, the files that are staged; nothing but a message on
\* stderr when it fails.
GitStdout(cmd, n) ==
    IF GitReturnCode(cmd) # 0 THEN <<>>
    ELSE CASE cmd = "log" -> get_recent_modified_files(n)
           [] cmd = "diff HEAD" -> Listing(git.dirty)
           [] cmd = "diff --cached" -> Listing(git.staged)

\* get_recent_modified_files(project_root, n) is called.
CallRecent(n) ==
    /\ call.pc \in {"idle", "returned"}
    /\ call' = [NoCall EXCEPT !.fn = "recent", !.n = n, !.pc = "run"]
    /\ UNCHANGED git

\* get_session_written_files(project_root) is called.
CallSession ==
    /\ call.pc \in {"idle", "returned"}
    /\ call' = [NoCall EXCEPT !.fn = "session", !.pc = "run"]
    /\ UNCHANGED git

\* subprocess.run starts the next git command.  Without a git binary it
\* raises FileNotFoundError, which "except Exception" turns into [].
SubprocessRun ==
    /\ call.pc = "run"
    /\ call' = IF git.kind = "nobinary"
               THEN [call EXCEPT !.pc = "returned", !.result = <<>>]
               ELSE [call EXCEPT !.pc = "wait"]
    /\ UNCHANGED git

\* The git process exits and subprocess.run returns its output; no timeout
\* is passed, and the return code is not looked at.  After the last command
\* the function returns: the stripped non-empty lines of the log, or
\* list({...}) of the lines of both diffs.
GitExits ==
    /\ call.pc = "wait"
    /\ LET cmd == GitCommands(call.fn)[Len(call.rc) + 1]
           rc == Append(call.rc, GitReturnCode(cmd))
           stdout == call.stdout \o GitStdout(cmd, call.n)
       IN  IF Len(rc) < Len(GitCommands(call.fn))
           THEN call' = [call EXCEPT !.pc = "run", !.rc = rc,
                                     !.stdout = stdout]
           ELSE \E result \in (IF call.fn = "recent" THEN {stdout}
                               ELSE Perms(Range(stdout))) :
                    call' = [call EXCEPT !.pc = "returned", !.rc = rc,
                                         !.stdout = stdout,
                                         !.result = result]
    /\ UNCHANGED git

----------------------------------------------------------------------------
(* skill_health_check.py: SkillHealthChecker and main *)

\* The services the compose files can name, and the logical stack that
\* run_all_checks adds; ServiceOrder is their sorted() order.
ComposeServices == {"mercury-api", "mercury-base", "postgres-dev"}
ServiceOrder ==
    <<"mercury-api", "mercury-base", "postgres-dev", "postgres-stack">>
AllServices == Range(ServiceOrder)

\* Seconds between the schema summary's mtime and now.
HourSeconds == 3600
DaySeconds == 86400
SummaryAges ==
    {0, HourSeconds, HourSeconds + 1, DaySeconds + 1800, DaySeconds + 7200}

\* A skill package: SKILL.md exists or not; scripts/map_schema.py and
\* references/database_schema_summary.md both exist or not; the summary's
\* age.
NoSkill == [exists |-> FALSE, schema |-> FALSE, age |-> 0]
SkillStates ==
    {NoSkill, [exists |-> TRUE, schema |-> FALSE, age |-> 0]}
    \cup {[exists |-> TRUE, schema |-> TRUE, age |-> a] : a \in SummaryAges}

NoHealth == [ran |-> FALSE, results |-> <<>>, printed |-> <<>>]

discover_services == healthWorld.compose \ {"mercury-base"}

\* timedelta.seconds: the seconds part of the difference, days left out.
TimedeltaSeconds(age) == age % DaySeconds

check_service_skill(service_name) ==
    LET skill == healthWorld.skill[service_name]
        said(status, last_updated, issues, recommendations) ==
            [service_name |-> service_name, status |-> status,
             last_updated |-> last_updated, issues |-> issues,
             recommendations |-> recommendations]
    IN  IF ~skill.exists
        THEN said("missing", "", <<>>, <<"Create skill">>)
        ELSE IF /\ service_name \in {"postgres-dev", "postgres-stack"}
                /\ skill.schema
                /\ TimedeltaSeconds(skill.age) > HourSeconds
        THEN said("stale", "mtime",
                  <<"Database schema documentation potentially stale">>,
                  <<"Run python3 scripts/map_schema.py to refresh">>)
        ELSE said("healthy", "mtime", <<>>, <<>>)

run_all_checks ==
    LET services == discover_services \cup {"postgres-stack"}
        sorted_services == SelectSeq(ServiceOrder, LAMBDA x : x \in services)
    IN  [i \in 1..Len(sorted_services) |->
            check_service_skill(sorted_services[i])]

\* The lines main prints for one result.
HealthLines(r) ==
    IF r.status = "missing" THEN <<>>
    ELSE <<[tag |-> "status", service |-> r.service_name, text |-> r.status]>>
         \o [i \in 1..Len(r.issues) |->
                [tag |-> "issue", service |-> r.service_name,
                 text |-> r.issues[i]]]
         \o [i \in 1..Len(r.recommendations) |->
                [tag |-> "rec", service |-> r.service_name,
                 text |-> r.recommendations[i]]]

skill_health_check_main ==
    /\ ~healthOut.ran
    /\ healthOut' =
          [ran |-> TRUE, results |-> run_all_checks,
           printed |->
              <<[tag |-> "title", service |-> "", text |-> ""]>>
              \o Flatten([i \in 1..Len(run_all_checks) |->
                             HealthLines(run_all_checks[i])])]
    /\ UNCHANGED healthWorld

----------------------------------------------------------------------------
(* install_hooks.py and install-service-skills.py: the git hook files.     *)
(* A file's content is the sequence of its lines and of the newline        *)
(* characters between them, so that appending a snippet, looking for a     *)
(* marker and replacing a snippet act on the text as the code does.        *)

NL == "\n"
Shebang == "#!/usr/bin/env bash"
UserLine == "make lint"

HookFiles == {"pre-commit", "pre-push"}

MARKER_DOC == "# [skill-hooks] doc-reminder"
MARKER_STALENESS == "# [skill-hooks] skill-staleness"
DOC_REMINDER_PATH ==
    ".claude/skills/service-skill-builder/scripts/hooks/doc_reminder.py"
SKILL_STALENESS_PATH ==
    ".claude/skills/service-skill-builder/scripts/hooks/skill_staleness.py"

\* The markers and script paths of install-service-skills.py.
SET_MARKER_DOC == "# [jaggers] doc-reminder"
SET_MARKER_STALENESS == "# [jaggers] skill-staleness"
SET_DOC_SCRIPT == "service-skills-set/.claude/git-hooks/doc_reminder.py"
SET_STALENESS_SCRIPT == "service-skills-set/.claude/git-hooks/skill_staleness.py"

\* Both installers build their snippets the same way: an empty line, the
\* marker, and a guarded call of the script.
Snippet(marker, path) ==
    <<NL, marker, NL,
      "if command -v python3 &>/dev/null && [ -f \"" \o path \o "\" ]; then", NL,
      "    python3 \"" \o path \o "\" || true", NL,
      "fi", NL>>

DOC_REMINDER_SNIPPET == Snippet(MARKER_DOC, DOC_REMINDER_PATH)
SKILL_STALENESS_SNIPPET == Snippet(MARKER_STALENESS, SKILL_STALENESS_PATH)

\* What each installer puts into each hook file.
MarkerOf(who, h) ==
    IF who = "install_hooks"
    THEN (IF h = "pre-commit" THEN MARKER_DOC ELSE MARKER_STALENESS)
    ELSE (IF h = "pre-commit" THEN SET_MARKER_DOC ELSE SET_MARKER_STALENESS)

SnippetOf(who, h) ==
    IF who = "install_hooks"
    THEN (IF h = "pre-commit" THEN DOC_REMINDER_SNIPPET
          ELSE SKILL_STALENESS_SNIPPET)
    ELSE (IF h = "pre-commit" THEN Snippet(SET_MARKER_DOC, SET_DOC_SCRIPT)
          ELSE Snippet(SET_MARKER_STALENESS, SET_STALENESS_SCRIPT))

NoHook == [exists |-> FALSE, content |-> <<>>]

HookFile(content) == [exists |-> TRUE, content |-> content]

\* marker in content
MarkerIn(marker, content) == \E i \in 1..Len(content) : content[i] = marker

\* content.replace(snippet, ""): every occurrence, left to right.
RECURSIVE Replace(_, _)
Replace(content, snippet) ==
    IF Len(content) < Len(snippet) THEN content
    ELSE IF SubSeq(content, 1, Len(snippet)) = snippet
         THEN Replace(SubSeq(content, Len(snippet) + 1, Len(content)), snippet)
    ELSE <<Head(content)>> \o Replace(Tail(content), snippet)

\* is_installed
is_installed(f, marker) == f.exists /\ MarkerIn(marker, f.content)

\* Mutation: the snippet appended without looking for the marker.
install_snippet_AlwaysAppend(f, marker, snippet) ==
    IF f.exists THEN HookFile(f.content \o snippet) ELSE f

\* install_snippet: the file afterwards; it returns True when the file
\* differs from before.
install_snippet(f, marker, snippet) ==
    IF ~f.exists THEN f
    ELSE IF MarkerIn(marker, f.content) THEN f
    ELSE HookFile(f.content \o snippet)

\* remove_snippet: the file afterwards, and whether it returns True (and
\* prints "removed").
remove_snippet(f, marker, snippet) ==
    IF ~f.exists THEN f
    ELSE IF ~MarkerIn(marker, f.content) THEN f
    ELSE HookFile(Replace(f.content, snippet))

remove_snippet_returns(f, marker) == f.exists /\ MarkerIn(marker, f.content)

\* activate_hooks and the copy loop of install_git_hooks: .git/hooks is
\* made and every hook file that exists is copied into it.
activate_hooks(files) ==
    [exists |-> TRUE,
     hooks |-> [h \in HookFiles |->
                  IF files[h].exists THEN files[h] ELSE gitDir.hooks[h]]]

NoInst ==
    [who |-> "none", mode |-> "none", runs |-> 0, exit |-> 0,
     before |-> [h \in HookFiles |-> NoHook],
     first |-> [h \in HookFiles |-> NoHook],
     removed |-> {}, shown |-> {}]

\* The record of an install run: consecutive runs of one installer are
\* counted, with the hook files before the first of them and after it.
Installed(who, after) ==
    LET again == inst.who = who /\ inst.mode = "install" /\ inst.runs >= 1
    IN  [NoInst EXCEPT !.who = who, !.mode = "install",
                       !.runs = IF again THEN inst.runs + 1 ELSE 1,
                       !.before = IF again THEN inst.before ELSE githooks,
                       !.first = IF again THEN inst.first ELSE after]

CanRunAgain(who) ==
    (inst.who = who /\ inst.mode = "install") => inst.runs < MaxRuns

\* install_hooks.py main, with no flag, --uninstall or --status.
install_hooks_main(mode) ==
    IF ~gitDir.exists
    THEN \* "Error: not a git repository"
         /\ inst' = [NoInst EXCEPT !.who = "install_hooks", !.mode = mode,
                                   !.exit = 1]
         /\ UNCHANGED <<githooks, gitDir>>
    ELSE IF mode = "status"
    THEN /\ inst' = [NoInst EXCEPT
                       !.who = "install_hooks", !.mode = mode,
                       !.shown = {h \in HookFiles :
                                     is_installed(githooks[h],
                                         MarkerOf("install_hooks", h))}]
         /\ UNCHANGED <<githooks, gitDir>>
    ELSE IF mode = "uninstall"
    THEN LET after == [h \in HookFiles |->
                          remove_snippet(githooks[h],
                              MarkerOf("install_hooks", h),
                              SnippetOf("install_hooks", h))]
         IN  /\ githooks' = after
             /\ gitDir' = activate_hooks(after)
             /\ inst' = [NoInst EXCEPT
                           !.who = "install_hooks", !.mode = mode,
                           !.removed = {h \in HookFiles :
                                           remove_snippet_returns(githooks[h],
                                               MarkerOf("install_hooks", h))}]
    ELSE LET after == [h \in HookFiles |->
                          install_snippet(githooks[h],
                              MarkerOf("install_hooks", h),
                              SnippetOf("install_hooks", h))]
         IN  /\ CanRunAgain("install_hooks")
             /\ githooks' = after
             /\ gitDir' = IF after # githooks THEN activate_hooks(after)
                          ELSE gitDir
             /\ inst' = Installed("install_hooks", after)

\* install-service-skills.py install_git_hooks, in a git repository (main
\* ends before it otherwise).
install_git_hooks ==
    LET made == [h \in HookFiles |->
                    IF githooks[h].exists THEN githooks[h]
                    ELSE HookFile(<<Shebang, NL>>)]
        after == [h \in HookFiles |->
                    IF MarkerIn(MarkerOf("install_git_hooks", h), made[h].content)
                    THEN made[h]
                    ELSE HookFile(made[h].content
                                  \o SnippetOf("install_git_hooks", h))]
        changed == \E h \in HookFiles : after[h] # made[h]
    IN  /\ gitDir.exists
        /\ CanRunAgain("install_git_hooks")
        /\ githooks' = after
        /\ gitDir' = IF changed THEN activate_hooks(after) ELSE gitDir
        /\ inst' = Installed("install_git_hooks", after)

----------------------------------------------------------------------------
(* agent_context.py: AgentContext, what a hook reads from its stdin and    *)
(* the JSON it prints. A JSON object is a function from its keys to their  *)
(* values; tool_input and prompt are read but take no part in the output   *)
(* and are left out.                                                       *)

\* Python's None, and the truth value of an optional string argument.
None == "None"
Truthy(x) == x # None /\ x # ""

\* {}
EmptyObject == [k \in {} |-> None]

HookEvents == {"PreToolUse", "PostToolUse", "UserPromptSubmit", "SessionStart"}
ToolNames == {"Bash", "run_shell_command", "Task"}

\* What stdin holds: a JSON object with or without the two keys, text that
\* is not JSON, or JSON that is not an object.
Stdins ==
    {[kind |-> "malformed", hook_event_name |-> None, tool_name |-> None],
     [kind |-> "array", hook_event_name |-> None, tool_name |-> None]}
    \cup [kind : {"object"}, hook_event_name : HookEvents \cup {None},
          tool_name : ToolNames \cup {None}]

Reasons == {"Dangerous operation", ""}
Messages == {None, "", "Test message"}
Contexts == {None, "", "Extra context"}

NoAgent == [pc |-> "new", tool_name |-> None, event |-> None, agent_type |-> ""]

NoAgentOut ==
    [call |-> "none", reason |-> None, system_message |-> None,
     additional_context |-> None, printed |-> FALSE, json |-> EmptyObject,
     exit |-> 0]

\* __init__: malformed stdin is read as {}; JSON that is not an object has
\* no .get, and the AttributeError leaves the constructor.
AgentContext_init ==
    /\ agent.pc = "new"
    /\ IF agentIn.stdin.kind = "array"
       THEN /\ agent' = [agent EXCEPT !.pc = "raised"]
            /\ agentOut' = [agentOut EXCEPT !.exit = 1]
       ELSE LET tool_name == agentIn.stdin.tool_name
            IN  /\ agent' =
                     [pc |-> "ready",
                      tool_name |-> tool_name,
                      event |-> agentIn.stdin.hook_event_name,
                      agent_type |->
                         IF tool_name = "run_shell_command" THEN "gemini"
                         ELSE IF tool_name = "Bash" THEN "claude"
                         ELSE IF agentIn.gemini_env THEN "gemini"
                         ELSE "claude"]
                /\ UNCHANGED agentOut
    /\ UNCHANGED agentIn

\* The dict block builds.
block_output(event, reason, system_message) ==
    (IF Truthy(system_message) THEN "systemMessage" :> system_message
     ELSE EmptyObject)
    @@ (IF event = "PreToolUse"
        THEN "hookSpecificOutput" :>
                 ("hookEventName" :> event
                  @@ "permissionDecision" :> "deny"
                  @@ "permissionDecisionReason" :> reason)
        ELSE "continue" :> FALSE @@ "stopReason" :> reason)

\* Mutation: the permission decision given on every event.
allow_output_DecisionOnEveryEvent(event, system_message, additional_context) ==
    (IF Truthy(system_message) THEN "systemMessage" :> system_message
     ELSE EmptyObject)
    @@ ("hookSpecificOutput" :>
            ("hookEventName" :> event
             @@ "permissionDecision" :> "allow"
             @@ (IF Truthy(additional_context)
                 THEN "additionalContext" :> additional_context
                 ELSE EmptyObject)))

\* The dict allow builds.
allow_output(event, system_message, additional_context) ==
    (IF Truthy(system_message) THEN "systemMessage" :> system_message
     ELSE EmptyObject)
    @@ (IF event = "PreToolUse" \/ Truthy(additional_context)
        THEN "hookSpecificOutput" :>
                 ("hookEventName" :> event
                  @@ (IF event = "PreToolUse"
                      THEN "permissionDecision" :> "allow"
                      ELSE EmptyObject)
                  @@ (IF Truthy(additional_context)
                      THEN "additionalContext" :> additional_context
                      ELSE EmptyObject))
        ELSE EmptyObject)

block(reason, system_message) ==
    /\ agent.pc = "ready"
    /\ agentOut' =
          [call |-> "block", reason |-> reason,
           system_message |-> system_message, additional_context |-> None,
           printed |-> TRUE,
           json |-> block_output(agent.event, reason, system_message),
           exit |-> 0]
    /\ agent' = [agent EXCEPT !.pc = "exited"]
    /\ UNCHANGED agentIn

\* allow prints only a dict that is not empty.
allow(system_message, additional_context) ==
    LET output == allow_output(agent.event, system_message, additional_context)
    IN  /\ agent.pc = "ready"
        /\ agentOut' =
              [call |-> "allow", reason |-> None,
               system_message |-> system_message,
               additional_context |-> additional_context,
               printed |-> (DOMAIN output # {}),
               json |-> IF DOMAIN output # {} THEN output ELSE EmptyObject,
               exit |-> 0]
        /\ agent' = [agent EXCEPT !.pc = "exited"]
        /\ UNCHANGED agentIn

fail_open ==
    /\ agent.pc = "ready"
    /\ agentOut' = [NoAgentOut EXCEPT !.call = "fail_open"]
    /\ agent' = [agent EXCEPT !.pc = "exited"]
    /\ UNCHANGED agentIn

----------------------------------------------------------------------------
(* changelog/add_entry.py and orchestrator.py: CHANGELOG.md. A text is the *)
(* sequence of its lines and of the newline characters between them, as    *)
(* for the hook files; a line is a string.                                 *)

CATEGORY_ORDER ==
    <<"Added", "Changed", "Deprecated", "Removed", "Fixed", "Security">>
ChangeCategory == Range(CATEGORY_ORDER)

CategoryIndex(cat) == CHOOSE i \in 1..Len(CATEGORY_ORDER) : CATEGORY_ORDER[i] = cat

Title == "# Changelog"
UnreleasedHeader == "## [Unreleased]"
VersionHeader == "## [1.0.0] - 2026-02-01"
HeaderOf(cat) == "### " \o cat
\* A header with a space after the name, and an entry nested under another.
PaddedHeader == "### Added "
NestedEntry == "  - nested"
Prose == "more text"

ChangeDescriptions == {"New feature X"}
BreakingPrefix == "**BREAKING**: "

EntryOf(description) == "- " \o description
EntryLines ==
    {"- Feature A", "- Bug B", "- Initial release", "- nested"}
    \cup {EntryOf(d) : d \in ChangeDescriptions}
    \cup {EntryOf(BreakingPrefix \o d) : d \in ChangeDescriptions}

\* line.strip()
Strip(line) ==
    IF line = PaddedHeader THEN HeaderOf("Added")
    ELSE IF line = NestedEntry THEN "- nested"
    ELSE line

\* re.match(r"^## \[Unreleased\]", line) and re.match(r"^## \[.+\]", line)
IsUnreleased(line) == line = UnreleasedHeader
IsVersion(line) == line \in {UnreleasedHeader, VersionHeader}

\* re.match(r"^### (.+)$", line) with the group in CATEGORY_ORDER: the
\* category, or "" when the line is no such header.
HeaderCategory(line) ==
    IF \E cat \in ChangeCategory : line = HeaderOf(cat)
    THEN CHOOSE cat \in ChangeCategory : line = HeaderOf(cat)
    ELSE ""

\* str.split("\n")
RECURSIVE SplitNL(_)
SplitNL(text) ==
    IF text = <<>> THEN <<"">>
    ELSE IF Head(text) = NL THEN <<"">> \o SplitNL(Tail(text))
    ELSE IF Len(text) = 1 THEN <<Head(text)>>
    ELSE <<Head(text)>> \o SplitNL(Tail(Tail(text)))

\* str.splitlines(): no empty last line for a text that ends with a newline.
splitlines(text) ==
    LET parts == SplitNL(text)
    IN  IF parts[Len(parts)] = "" THEN SubSeq(parts, 1, Len(parts) - 1)
        ELSE parts

\* "\n".join(lines)
RECURSIVE join(_)
join(lines) ==
    IF lines = <<>> THEN <<>>
    ELSE (IF Head(lines) = "" THEN <<>> ELSE <<Head(lines)>>)
         \o (IF Len(lines) = 1 THEN <<>> ELSE <<NL>> \o join(Tail(lines)))

\* list.insert: x becomes the element at position i.
InsertAt(lines, i, x) ==
    SubSeq(lines, 1, i - 1) \o <<x>> \o SubSeq(lines, i, Len(lines))

MinOf(S) == IF S = {} THEN 0 ELSE CHOOSE i \in S : \A j \in S : i <= j

\* The first [Unreleased] header, 0 for None.
unreleased_idx(lines) == MinOf({i \in 1..Len(lines) : IsUnreleased(lines[i])})

\* Mutation: the whole rest of the file taken as the Unreleased section.
next_version_idx_EndOfFile(lines, u) == Len(lines) + 1

\* The first version header after [Unreleased], len(lines) when none.
next_version_idx(lines, u) ==
    LET S == {i \in (u + 1)..Len(lines) : IsVersion(lines[i])}
    IN  IF S = {} THEN Len(lines) + 1 ELSE MinOf(S)

\* The first line of the section that is the category's header once
\* stripped, 0 for None.
category_idx(lines, u, nv, cat) ==
    MinOf({i \in (u + 1)..(nv - 1) : Strip(lines[i]) = HeaderOf(cat)})

\* _insert_category_in_order: the lines with the header (and a blank line
\* before it) inserted, and the header's index.
_insert_category_in_order(lines, u, nv, cat) ==
    LET existing == {i \in (u + 1)..(nv - 1) : HeaderCategory(lines[i]) # ""}
        later == {i \in existing :
                     CategoryIndex(cat) < CategoryIndex(HeaderCategory(lines[i]))}
        insert_idx == IF later = {} THEN nv ELSE MinOf(later)
    IN  IF existing # {}
        THEN [lines |-> InsertAt(InsertAt(lines, insert_idx, ""),
                                 insert_idx + 1, HeaderOf(cat)),
              idx |-> insert_idx + 1]
        ELSE [lines |-> InsertAt(InsertAt(lines, u + 1, ""),
                                 u + 2, HeaderOf(cat)),
              idx |-> u + 2]

\* The entries that directly follow the header are skipped.
RECURSIVE SkipEntries(_, _, _)
SkipEntries(lines, i, nv) ==
    IF i <= Len(lines) /\ i < nv /\ Strip(lines[i]) \in EntryLines
    THEN SkipEntries(lines, i + 1, nv)
    ELSE i

add_entry_raises(content) == unreleased_idx(splitlines(content)) = 0

add_entry(content, category, description) ==
    LET lines == splitlines(content)
        u == unreleased_idx(lines)
        nv0 == next_version_idx(lines, u)
        found == category_idx(lines, u, nv0, category)
        made == IF found = 0
                THEN _insert_category_in_order(lines, u, nv0, category)
                ELSE [lines |-> lines, idx |-> found]
        nv == next_version_idx(made.lines, u)
        refound == category_idx(made.lines, u, nv, category)
        cidx == IF refound # 0 THEN refound ELSE made.idx
        at == SkipEntries(made.lines, cidx + 1, nv)
    IN  join(InsertAt(made.lines, at, EntryOf(description)))

NoChangelog == [exists |-> FALSE, text |-> <<>>]

NoResult ==
    [changelog_updated |-> FALSE, ssot_updated |-> FALSE,
     validation_errors |-> <<>>]

NoChOut ==
    [fn |-> "none", category |-> "", entry |-> "", raised |-> "",
     before |-> NoChangelog, result |-> NoResult]

\* Mutation: the file written before the section is looked for.
add_entry_to_file_Truncates(f, category, description) ==
    IF f.exists /\ add_entry_raises(f.text)
    THEN [exists |-> TRUE, text |-> <<>>]
    ELSE IF f.exists
    THEN [exists |-> TRUE, text |-> add_entry(f.text, category, description)]
    ELSE f

\* add_entry_to_file: the file afterwards, and the exception it leaves with.
add_entry_to_file(f, category, description) ==
    IF ~f.exists \/ add_entry_raises(f.text) THEN f
    ELSE [exists |-> TRUE, text |-> add_entry(f.text, category, description)]

add_entry_to_file_raises(f) ==
    IF ~f.exists THEN "FileNotFoundError"
    ELSE IF add_entry_raises(f.text) THEN "ValueError"
    ELSE ""

MaxCalls == 2

\* add_entry.py main with a valid category.
add_entry_main(category, description) ==
    /\ chCalls < MaxCalls
    /\ chCalls' = chCalls + 1
    /\ changelog' = add_entry_to_file(changelog, category, description)
    /\ chOut' = [NoChOut EXCEPT
                   !.fn = "add_entry_to_file", !.category = category,
                   !.entry = EntryOf(description),
                   !.raised = add_entry_to_file_raises(changelog),
                   !.before = changelog]

ChangeTypes == {"feature", "bugfix", "refactor", "breaking", "docs", "chore"}

CHANGE_TYPE_TO_CATEGORY(change_type) ==
    CASE change_type = "feature" -> "Added"
      [] change_type = "bugfix" -> "Fixed"
      [] OTHER -> "Changed"

UpdateFailed == "CHANGELOG update failed: CHANGELOG missing [Unreleased] section"

\* What validate_changelog_file can answer: the module is not in the
\* source tree, so any of these lists of errors.
ValidateErrors == {<<>>, <<"CHANGELOG: invalid">>}

\* validate_all: the errors of the changelog's validation, none when there
\* is no changelog.
validate_all(f, errors) == IF f.exists THEN errors ELSE <<>>

\* DocumentingOrchestrator.document_change; _update_ssot is the placeholder
\* that returns ssot_updated False, and the suggestions it also returns
\* are left out.
document_change(change_type, description, breaking, errors) ==
    LET category == CHANGE_TYPE_TO_CATEGORY(change_type)
        text == IF breaking THEN BreakingPrefix \o description ELSE description
        failed == changelog.exists /\ add_entry_raises(changelog.text)
        after == add_entry_to_file(changelog, category, text)
    IN  /\ chCalls < MaxCalls
        /\ chCalls' = chCalls + 1
        /\ changelog' = after
        /\ chOut' = [NoChOut EXCEPT
                       !.fn = "document_change", !.category = category,
                       !.entry = EntryOf(text),
                       !.before = changelog,
                       !.result =
                          [changelog_updated |-> changelog.exists /\ ~failed,
                           ssot_updated |-> FALSE,
                           validation_errors |->
                              (IF failed THEN <<UpdateFailed>> ELSE <<>>)
                              \o validate_all(after, errors)]]

----------------------------------------------------------------------------
(* install-service-skills.py install_settings: .claude/settings.json. The  *)
(* file is what its text says (a JSON object as a function from its keys,  *)
(* a JSON array, or text that json.loads rejects, which still shows the    *)
(* keys and values that were written in it).                               *)

SETTINGS_HOOKS == {"SessionStart", "PreToolUse", "PostToolUse"}

\* The events a settings file can configure, and the configurations: the
\* installer's own for the event, or one the user wrote.
SettingsEvents == SETTINGS_HOOKS \cup {"Stop"}
InstallerConfig == "installer"
UserConfig == "user"

\* The values of the "hooks" key: an object from events to configurations,
\* or a JSON array (written as an object with the one key "[]", which is
\* no event, so that the two can be told apart).
HooksArray == "[]" :> "array"
HooksObjects ==
    UNION {[E -> {InstallerConfig, UserConfig}] : E \in SUBSET SettingsEvents}

\* The values of the other key a settings file can have.
Permissions == "permissions"

NoSettings == [exists |-> FALSE, kind |-> "none", data |-> EmptyObject]

SettingsFile(kind, data) == [exists |-> TRUE, kind |-> kind, data |-> data]

NoSetOut ==
    [ran |-> FALSE, raised |-> "", before |-> NoSettings, added |-> {}]

\* json.loads(path.read_text()) under `except json.JSONDecodeError: pass`:
\* the object, {} for a missing or malformed file.
LoadedSettings(f) ==
    IF f.exists /\ f.kind = "object" THEN f.data ELSE EmptyObject

\* The loop over SETTINGS_HOOKS: an event is added when it is not there.
MergedHooks(hooks) ==
    [e \in DOMAIN hooks \cup SETTINGS_HOOKS |->
        IF e \in DOMAIN hooks THEN hooks[e] ELSE InstallerConfig]

install_settings ==
    IF settings.exists /\ settings.kind = "array"
    THEN \* existing.setdefault: a list has no such method
         /\ setOut' = [ran |-> TRUE, raised |-> "AttributeError",
                       before |-> settings, added |-> {}]
         /\ UNCHANGED settings
    ELSE LET existing == LoadedSettings(settings)
             hooks == IF "hooks" \in DOMAIN existing THEN existing["hooks"]
                      ELSE EmptyObject
         IN  IF hooks = HooksArray
             THEN \* hooks[event] = config on a list
                  /\ setOut' = [ran |-> TRUE, raised |-> "TypeError",
                                before |-> settings, added |-> {}]
                  /\ UNCHANGED settings
             ELSE /\ settings' =
                        SettingsFile("object",
                            [k \in DOMAIN existing \cup {"hooks"} |->
                                IF k = "hooks" THEN MergedHooks(hooks)
                                ELSE existing[k]])
                  /\ setOut' = [ran |-> TRUE, raised |-> "",
                                before |-> settings,
                                added |-> SETTINGS_HOOKS \ DOMAIN hooks]

----------------------------------------------------------------------------
(* Specifications *)

GlobIdle ==
    /\ gPath = << <<"a">> >>
    /\ gPattern = << <<"a">> >>
    /\ gPc = "input"
    /\ gResult = FALSE

DriftIdle ==
    /\ memories = <<>>
    /\ commits = <<>>
    /\ newer = {}
    /\ out = NoOut

GenIdle ==
    /\ skillDir = FALSE
    /\ skillMd = Absent
    /\ brief = FALSE
    /\ scripts = [s \in ScriptNames |-> "absent"]
    /\ genOut = NoGen

GitIdle ==
    /\ git = [kind |-> "ok", dirty |-> {}, staged |-> {}]
    /\ call = NoCall

HealthIdle ==
    /\ healthWorld = [compose |-> {}, skill |-> [x \in AllServices |-> NoSkill]]
    /\ healthOut = NoHealth

InstallIdle ==
    /\ githooks = [h \in HookFiles |-> NoHook]
    /\ gitDir = [exists |-> FALSE, hooks |-> [h \in HookFiles |-> NoHook]]
    /\ inst = NoInst

AgentIdle ==
    /\ agentIn = [stdin |-> [kind |-> "malformed", hook_event_name |-> None,
                             tool_name |-> None],
                  gemini_env |-> FALSE]
    /\ agent = NoAgent
    /\ agentOut = NoAgentOut

ChangelogIdle ==
    /\ changelog = NoChangelog
    /\ chOut = NoChOut
    /\ chCalls = 0

SettingsIdle ==
    /\ settings = NoSettings
    /\ setOut = NoSetOut

RestIdle == AgentIdle /\ ChangelogIdle /\ SettingsIdle

\* SpecGlob: _match_glob applied to every bounded path and pattern.
GlobInit ==
    /\ gPath \in RawPaths
    /\ gPattern \in RawPatterns
    /\ gPc = "input"
    /\ gResult = FALSE
    /\ DriftIdle
    /\ RestIdle
    /\ GenIdle
    /\ GitIdle
    /\ HealthIdle
    /\ InstallIdle

CallMatchGlob ==
    /\ gPc = "input"
    /\ gResult' = match_glob(gPath, gPattern)
    /\ gPc' = "done"
    /\ UNCHANGED <<gPath, gPattern>>
    /\ UNCHANGED driftVars
    /\ UNCHANGED restVars
    /\ UNCHANGED genVars
    /\ UNCHANGED gitVars
    /\ UNCHANGED healthVars
    /\ UNCHANGED installVars

GlobNext == CallMatchGlob

SpecGlob == GlobInit /\ [][GlobNext]_vars

\* SpecDrift: the detector's three subcommands in a changing repository.
DriftInit ==
    GlobIdle /\ DriftIdle /\ GenIdle /\ GitIdle /\ HealthIdle /\ InstallIdle
    /\ RestIdle

DriftNext ==
    /\ UNCHANGED globVars
    /\ UNCHANGED restVars
    /\ UNCHANGED installVars
    /\ UNCHANGED genVars
    /\ UNCHANGED gitVars
    /\ UNCHANGED healthVars
    /\ \/ \E n \in MemNames, c \in MemContents : WriteMemory(n, c)
       \/ \E S \in (SUBSET DriftFiles) \ {{}} : Commit(S)
       \/ \E since \in SinceValues : cmd_scan(since)
       \/ \E name \in MemNames \cup {NoName} : cmd_check(name)
       \/ \E dirty \in SUBSET DriftFiles : \E staged \in SUBSET dirty :
              cmd_hook(dirty, staged)

SpecDrift == DriftInit /\ [][DriftNext]_vars

\* SpecGen: generate_skill run again and again on a package that people
\* edit in between.
GenInit ==
    GlobIdle /\ DriftIdle /\ GenIdle /\ GitIdle /\ HealthIdle /\ InstallIdle
    /\ RestIdle

GenNext ==
    /\ UNCHANGED globVars
    /\ UNCHANGED restVars
    /\ UNCHANGED installVars
    /\ UNCHANGED driftVars
    /\ UNCHANGED gitVars
    /\ UNCHANGED healthVars
    /\ \/ \E service_name \in Services, update \in BOOLEAN,
             brief_only \in BOOLEAN, d \in Descriptions :
              generate_skill(service_name, update, brief_only, d)
       \/ \E r \in HumanRegions : EditRegion(r)
       \/ \E x \in {SemanticStart, SemanticEnd} : DeleteSentinel(x)
       \/ \E s \in ScriptNames : EditScript(s)

SpecGen == GenInit /\ [][GenNext]_vars

\* SpecHook: hook mode run on every bounded memory directory: up to
\* MaxMems memories, each with frontmatter that does not parse, without a
\* tracks key, or with tracks.
HookContents ==
    {c \in MemContents : c.fm = "mapping" /\ (c.hasTracks => c.tracks # <<>>)}
    \cup {MalformedContent}

HookDirs ==
    UNION {{[i \in 1..k |-> [name |-> i, content |-> d[i]]] :
               d \in [1..k -> HookContents]} : k \in 0..MaxMems}

HookInit ==
    /\ GlobIdle
    /\ RestIdle
    /\ InstallIdle
    /\ GenIdle
    /\ GitIdle
    /\ HealthIdle
    /\ memories \in HookDirs
    /\ commits = <<>>
    /\ newer = {}
    /\ out = NoOut

HookNext ==
    /\ UNCHANGED globVars
    /\ UNCHANGED restVars
    /\ UNCHANGED installVars
    /\ UNCHANGED genVars
    /\ UNCHANGED gitVars
    /\ UNCHANGED healthVars
    /\ \E dirty \in SUBSET DriftFiles : \E staged \in SUBSET dirty :
           cmd_hook(dirty, staged)

SpecHook == HookInit /\ [][HookNext]_vars

\* SpecGit: the two change-set queries run against every bounded state of
\* the repository and of the git installation.
Histories == SeqsUpTo((SUBSET DriftFiles) \ {{}}, MaxCommits)

GitInit ==
    /\ GlobIdle
    /\ RestIdle
    /\ InstallIdle
    /\ GenIdle
    /\ HealthIdle
    /\ memories = <<>>
    /\ newer = {}
    /\ out = NoOut
    /\ call = NoCall
    /\ \E kind \in GitKinds, dirty \in SUBSET DriftFiles :
       \E staged \in SUBSET dirty :
          /\ git = [kind |-> kind, dirty |-> dirty, staged |-> staged]
          /\ commits \in (IF kind \in {"ok", "nobinary"} THEN Histories
                          ELSE {<<>>})
          /\ (kind = "unborn" => dirty = staged)
          /\ (kind = "norepo" => dirty = {})

GitNext ==
    /\ UNCHANGED globVars
    /\ UNCHANGED restVars
    /\ UNCHANGED installVars
    /\ UNCHANGED genVars
    /\ UNCHANGED driftVars
    /\ UNCHANGED healthVars
    /\ \/ \E n \in SinceValues : CallRecent(n)
       \/ CallSession
       \/ SubprocessRun
       \/ GitExits

SpecGit == GitInit /\ [][GitNext]_vars

\* SpecGitLive: the same, with the program's own steps fair.  The exit of
\* the external git process is not: it may never come.
SpecGitLive ==
    GitInit /\ [][GitNext]_vars /\ WF_gitVars(SubprocessRun)

----------------------------------------------------------------------------
(* Reference semantics of a segment pattern: an assignment of a number of   *)
(* path segments to every pattern segment, any number (zero included) to a  *)
(* "**" and exactly one to every other segment, that uses up the path and   *)
(* under which every other segment fnmatches the path segment it is given.  *)

StarStarAt(pat) == {i \in 1..Len(pat) : pat[i] = StarStar}

Consumed(pat, k, i) == IF i \in StarStarAt(pat) THEN k[i] ELSE 1

RECURSIVE ConsumedBefore(_, _, _)
ConsumedBefore(pat, k, i) ==
    IF i <= 1 THEN 0
    ELSE ConsumedBefore(pat, k, i - 1) + Consumed(pat, k, i - 1)

RefMatch(pp, pat) ==
    \E k \in [StarStarAt(pat) -> 0..Len(pp)] :
        /\ ConsumedBefore(pat, k, Len(pat) + 1) = Len(pp)
        /\ \A i \in (1..Len(pat)) \ StarStarAt(pat) :
               fnmatch(pp[ConsumedBefore(pat, k, i) + 1], pat[i])

\* C4: for every path and pattern, _match_glob returns exactly what the
\* reference semantics gives: "**" stands for any (possibly empty) sequence
\* of whole segments and every other pattern segment for exactly one.
C4_GlobEqualsReference ==
    gPc = "done" =>
        gResult = RefMatch(PosixParts(gPath), PosixParts(gPattern))

\* a/**/?b against a/ab: the "**" stands for zero segments and the call
\* returned true.
C4_Witness ==
    /\ gPc = "done"
    /\ gPattern = << <<"a">>, StarStar, <<"?", "b">> >>
    /\ gPath = << <<"a">>, <<"a", "b">> >>
    /\ gResult = TRUE

\* A pattern that denotes a directory prefix: literal directory segments
\* followed by "**" or by "**" and "*".
IsLiteralSeg(s) == \A i \in 1..Len(s) : s[i] \notin {"*", "?"}

DirOf(pat) ==
    IF Len(pat) >= 2 /\ pat[Len(pat)] = StarStar
    THEN SubSeq(pat, 1, Len(pat) - 1)
    ELSE IF Len(pat) >= 3 /\ pat[Len(pat)] = <<"*">>
            /\ pat[Len(pat) - 1] = StarStar
    THEN SubSeq(pat, 1, Len(pat) - 2)
    ELSE <<>>

IsDirPrefixPattern(pat) ==
    /\ DirOf(pat) # <<>>
    /\ \A i \in 1..Len(DirOf(pat)) : IsLiteralSeg(DirOf(pat)[i])

\* The raw path starts with the directory's segments and names something
\* below it (what follows "dir/" is not empty and not only "." or "/").
IsBelow(raw, dir) ==
    /\ Len(raw) > Len(dir)
    /\ SubSeq(raw, 1, Len(dir)) = dir
    /\ NameParts(SubSeq(raw, Len(dir) + 1, Len(raw))) # <<>>

\* C5: a pattern ending in /** or /**/* matches every path below its
\* directory, whatever the name or extension of the file.
C5_DirPrefixMatches ==
    (gPc = "done" /\ IsDirPrefixPattern(gPattern)
        /\ IsBelow(gPath, DirOf(gPattern)))
    => gResult = TRUE

\* a/**/* against a/a/ab: a file two levels below the directory.
C5_Witness ==
    /\ gPc = "done"
    /\ gPattern = << <<"a">>, StarStar, <<"*">> >>
    /\ gPath = << <<"a">>, <<"a">>, <<"a", "b">> >>
    /\ gResult = TRUE

\* C6: an absolute path matches no pattern, patterns beginning with "**"
\* included: the call returns false for it.
C6_AbsoluteNeverMatches ==
    (gPc = "done" /\ IsAbsolute(gPath)) => gResult = FALSE

----------------------------------------------------------------------------
(* Claims about scan, check and hook, checked under SpecDrift *)

StaleNames(stale) == [i \in 1..Len(stale) |-> stale[i].name]

NoDuplicates(s) == \A i, j \in 1..Len(s) : i # j => s[i] # s[j]

StrictlyIncreasing(s) == \A i, j \in 1..Len(s) : i < j => s[i] < s[j]

TracksOfName(n) == extract_tracks(MemoryNamed(n).content)

\* Some file of the set is matched by some pattern of the memory's tracks.
Touches(S, n) ==
    \E f \in S : \E p \in Range(TracksOfName(n)) : match_glob(f, p)

ScanReported == out.cmd = "scan" /\ out.kind = "report"

\* C1: scan reports a memory stale only if some changed file that matches
\* its tracks was modified strictly later than the memory itself; when all
\* the matching changed files are older, it reports no finding for it.
C1_StaleOnlyIfNewer ==
    ScanReported =>
        \A i \in 1..Len(out.stale) :
            \E f \in Range(out.modified) :
                /\ Touches({f}, out.stale[i].name)
                /\ <<f, out.stale[i].name>> \in newer

\* C7: a memory whose tracks list is empty or absent matches no file of
\* any change set and is never reported by scan, check or hook.
C7_EmptyTracksTrackNothing ==
    \A n \in MemNamesIn(memories) :
        TracksOfName(n) = <<>> =>
            /\ \A files \in SeqsUpTo(DriftFiles, 2) :
                   match_files_to_tracks(files, TracksOfName(n)) = <<>>
            /\ n \notin Range(StaleNames(out.stale))
            /\ n \notin Range(out.names)
            /\ ~(out.cmd = "check" /\ out.arg = n /\ out.kind = "stale")

\* scan found another memory stale while a memory without tracks sat beside
\* it, and check was not asked: the change set was not empty.
C7_Witness ==
    /\ ScanReported
    /\ out.stale # <<>>
    /\ \E n \in MemNamesIn(memories) :
           /\ MemoryNamed(n).content.fm = "mapping"
           /\ TracksOfName(n) = <<>>

\* No file of the change set is matched by any pattern of any memory.
Unowned(files) ==
    \A n \in MemNamesIn(memories) : ~Touches(Range(files), n)

SomeTracked == \E n \in MemNamesIn(memories) : TracksOfName(n) # <<>>

\* C8: when no changed file matches any pattern of any memory, scan, check
\* and hook report nothing, whatever the files' and memories' timestamps.
C8_UnownedFilesNoFindings ==
    (out.cmd \in {"scan", "check", "hook"} /\ Unowned(out.modified)) =>
        /\ out.stale = <<>>
        /\ out.names = <<>>
        /\ out.kind \notin {"stale", "json"}
        /\ (ScanReported =>
               out.exit = 0 /\ out.lines = format_scan_report(<<>>))

\* scan ran over a change set that is not empty, with a tracked memory
\* that a changed file is newer than, and none of the files is owned.
C8_Witness ==
    /\ ScanReported
    /\ out.modified # <<>>
    /\ SomeTracked
    /\ newer # {}
    /\ Unowned(out.modified)

C10_RecentFilesDeduplicated ==
    out.cmd = "scan" =>
        /\ NoDuplicates(out.modified)
        /\ \A i \in 1..Len(out.stale) : NoDuplicates(out.stale[i].files)

\* C13: hook mode ends with exit status 0 on every path, also when a step
\* inside it raises (frontmatter that yaml loads to a value that is no
\* mapping): the exception does not surface as a non-zero exit.
C13_HookAlwaysExitsZero == out.cmd = "hook" => out.exit = 0

\* The positions of the report's name lines, and the k-th block: the lines
\* from the k-th name line up to the next name line or, for the last
\* block, up to the end of the report (last) or up to the line before the
\* closing line (last - 1).
NamePositions(lines) ==
    SelectSeq([i \in 1..Len(lines) |-> i], LAMBDA i : lines[i].tag = "name")

BlockUpTo(lines, k, last) ==
    LET pos == NamePositions(lines)
    IN  SubSeq(lines, pos[k], IF k < Len(pos) THEN pos[k + 1] - 1 ELSE last)

CountTag(lines, tag) == Len(SelectSeq(lines, LAMBDA l : l.tag = tag))

\* A block is the finding's name, its last-updated value, its first three
\* files in order, and an empty line.
BlockShows(blk, info) ==
    LET shown == Take(info.files, 3)
    IN  /\ Len(blk) = Len(shown) + 3
        /\ blk[1].tag = "name" /\ blk[1].n = info.name
        /\ blk[2].tag = "updated" /\ blk[2].text = info.updated
        /\ \A i \in 1..Len(shown) :
               blk[i + 2].tag = "modified" /\ blk[i + 2].file = shown[i]
        /\ blk[Len(blk)].tag = "blank"

\* C19 as stated: the report of a non-empty findings map has one block per
\* finding, in the findings' order, and each block carries the finding's
\* name, its last-updated value, its first three files and the remediation
\* command; for an empty map the report says that all is up to date.
C19_EachBlockCarriesCommand ==
    ScanReported =>
        IF out.stale = <<>>
        THEN Len(out.lines) = 1 /\ out.lines[1].tag = "uptodate"
        ELSE /\ Len(NamePositions(out.lines)) = Len(out.stale)
             /\ \A k \in 1..Len(out.stale) :
                    LET blk == BlockUpTo(out.lines, k, Len(out.lines))
                    IN  /\ BlockShows(SubSeq(blk, 1, Len(blk) - 1),
                                      out.stale[k])
                        /\ blk[Len(blk)].tag = "footer"

\* C19 amended: the report of a non-empty findings map is a heading with
\* the number of findings, one block per finding in the findings' order
\* with the finding's name, its last-updated value and its first three
\* files, and after the last block the remediation command, once; for an
\* empty map it is the one line saying that all is up to date.
C19_ReportBlocks ==
    ScanReported =>
        IF out.stale = <<>>
        THEN Len(out.lines) = 1 /\ out.lines[1].tag = "uptodate"
        ELSE /\ out.lines[1].tag = "header"
             /\ out.lines[1].n = Len(out.stale)
             /\ NamePositions(out.lines)[1] = 2
             /\ Len(NamePositions(out.lines)) = Len(out.stale)
             /\ \A k \in 1..Len(out.stale) :
                    BlockShows(BlockUpTo(out.lines, k, Len(out.lines) - 1),
                               out.stale[k])
             /\ out.lines[Len(out.lines)].tag = "footer"
             /\ CountTag(out.lines, "footer") = 1
             /\ CountTag(out.lines, "uptodate") = 0

\* Two findings, one of them with more than three files: its block lists
\* three.
C19_Witness ==
    /\ ScanReported
    /\ Len(out.stale) = 2
    /\ \E k \in 1..2 :
           /\ Len(out.stale[k].files) > 3
           /\ Len(BlockUpTo(out.lines, k, Len(out.lines) - 1)) = 6

\* The drift check ran to its verdict: scan printed its report, check said
\* stale, up to date or no tracks (not a usage error, not a traceback).
DriftVerdict ==
    \/ out.cmd = "scan" /\ out.kind = "report"
    \/ out.cmd = "check" /\ out.kind \in {"stale", "uptodate", "notracks"}

\* C14: with the strict-mode environment variable unset the drift check
\* exits 0 whether or not it found stale memories.  The detector reads no
\* environment variable, so every run is also a run with the variable
\* unset.
C14_AdvisoryExitsZero == DriftVerdict => out.exit = 0

----------------------------------------------------------------------------
(* Claims about regeneration, checked under SpecGen *)

Regenerated ==
    /\ genOut.status # "none"
    /\ genOut.service = "svc"
    /\ genOut.update
    /\ ~genOut.brief_only
    /\ genOut.before.exists

\* C2: regenerating an existing SKILL.md with update keeps the text between
\* the sentinels as it was, and takes everything else from the fresh
\* template.
C2_RegionPreserved ==
    (Regenerated /\ Balanced(genOut.before.lines)) =>
        /\ Balanced(skillMd.lines)
        /\ Region(skillMd.lines) = Region(genOut.before.lines)
        /\ Outside(skillMd.lines) = Outside(SKILL_TEMPLATE(genOut.d))

\* C3: regenerating a SKILL.md whose sentinels are unbalanced fails with
\* the unbalanced-sentinel error and leaves the file as it was.
C3_UnbalancedFailsLoudly ==
    (Regenerated /\ Unbalanced(genOut.before.lines)) =>
        /\ genOut.status = "unbalanced"
        /\ skillMd = genOut.before

\* SpecHealth: the health check run on every bounded state of the compose
\* files and of the skill packages.
HealthInit ==
    /\ GlobIdle
    /\ RestIdle
    /\ InstallIdle
    /\ DriftIdle
    /\ GenIdle
    /\ GitIdle
    /\ healthOut = NoHealth
    /\ \E compose \in SUBSET ComposeServices :
       \E api \in {k \in SkillStates : ~k.schema}, dev \in SkillStates,
          stack \in SkillStates :
          healthWorld =
             [compose |-> compose,
              skill |-> [x \in AllServices |->
                           CASE x = "mercury-api" -> api
                             [] x = "postgres-dev" -> dev
                             [] x = "postgres-stack" -> stack
                             [] OTHER -> NoSkill]]

HealthNext ==
    /\ UNCHANGED globVars
    /\ UNCHANGED restVars
    /\ UNCHANGED installVars
    /\ UNCHANGED driftVars
    /\ UNCHANGED genVars
    /\ UNCHANGED gitVars
    /\ skill_health_check_main

SpecHealth == HealthInit /\ [][HealthNext]_vars

\* SpecInstall: the two installers run again and again on every bounded
\* state of the hook files and of .git/hooks.
InitialContents(h) ==
    LET marker == MarkerOf("install_hooks", h)
        snippet == SnippetOf("install_hooks", h)
    IN  { <<>>,
          <<Shebang, NL>>,
          <<Shebang, NL, UserLine>>,
          <<Shebang, NL, marker, NL>>,
          <<Shebang, NL>> \o snippet,
          <<Shebang, NL>> \o snippet \o snippet }

InitialHooks(h) == {NoHook} \cup {HookFile(c) : c \in InitialContents(h)}

ActiveHooks == {NoHook, HookFile(<<Shebang, NL>>)}

InstallInit ==
    /\ GlobIdle
    /\ RestIdle
    /\ DriftIdle
    /\ GenIdle
    /\ GitIdle
    /\ HealthIdle
    /\ inst = NoInst
    /\ \E c \in InitialHooks("pre-commit"), p \in InitialHooks("pre-push") :
          githooks = [h \in HookFiles |-> IF h = "pre-commit" THEN c ELSE p]
    /\ \E exists \in BOOLEAN, c \in ActiveHooks, p \in ActiveHooks :
          /\ gitDir = [exists |-> exists,
                       hooks |-> [h \in HookFiles |->
                                    IF h = "pre-commit" THEN c ELSE p]]
          /\ (~exists => c = NoHook /\ p = NoHook)

InstallNext ==
    /\ UNCHANGED globVars
    /\ UNCHANGED restVars
    /\ UNCHANGED driftVars
    /\ UNCHANGED genVars
    /\ UNCHANGED gitVars
    /\ UNCHANGED healthVars
    /\ \/ \E mode \in {"install", "uninstall", "status"} :
              install_hooks_main(mode)
       \/ install_git_hooks

SpecInstall == InstallInit /\ [][InstallNext]_vars

----------------------------------------------------------------------------
(* Claims about the change-set queries, checked under SpecGit *)

GitFailed == \E i \in 1..Len(call.rc) : call.rc[i] # 0

\* C11: when a git command of a change-set query fails (no git binary, no
\* repository, a non-zero exit), the query returns the empty list and does
\* not raise.
C11_GitFailureGivesEmpty ==
    (call.pc = "returned" /\ (GitFailed \/ git.kind = "nobinary")) =>
        call.result = <<>> /\ ~call.raised

\* C12: every change-set query that was started returns, even if the git
\* process it waits for never exits.
C12_QueryTerminates == (call.pc = "wait") ~> (call.pc = "returned")

----------------------------------------------------------------------------
(* Claims about the health check, checked under SpecHealth *)

Printed(service_name) ==
    \E i \in 1..Len(healthOut.printed) :
        healthOut.printed[i].service = service_name

\* C15: a service whose SKILL.md does not exist is classified "missing"
\* (and only such a service is), and every service classified "missing"
\* appears in the report the command prints.
C15_MissingIsSurfaced ==
    healthOut.ran =>
        \A i \in 1..Len(healthOut.results) :
            LET r == healthOut.results[i]
            IN  /\ (r.status = "missing") <=>
                       ~healthWorld.skill[r.service_name].exists
                /\ (r.status = "missing" => Printed(r.service_name))

----------------------------------------------------------------------------
(* Claims about the session-context message, checked under SpecHook *)

HookRead == out.cmd = "hook" /\ out.modified # <<>>

SomeMalformed ==
    \E i \in 1..Len(memories) : memories[i].content.fm = "malformed"

\* C16: when hook mode reads a memory whose frontmatter does not parse, it
\* ends with an error for it (it does not go on as it does for a memory
\* that declares no tracks).
C16_MalformedIsSurfaced == (HookRead /\ SomeMalformed) => out.kind = "error"

NamesShown ==
    LET shown == SelectSeq(out.lines, LAMBDA l : l.tag = "name")
    IN  [i \in 1..Len(shown) |-> shown[i].n]

Overflow == SelectSeq(out.lines, LAMBDA l : l.tag = "more")

Flagged == {n \in MemNamesIn(memories) : Touches(Range(out.modified), n)}

Min(a, b) == IF a < b THEN a ELSE b

\* C17: with n >= 1 flagged memories the message names the first min(n, 3)
\* of them in finding order and has the counter "(+k more)" exactly when
\* n > 3, with k = n - 3; with n = 0 nothing is written.
C17_MessageNamesFirstThree ==
    HookRead =>
        LET n == Cardinality(Flagged)
        IN  /\ Range(out.names) = Flagged
            /\ StrictlyIncreasing(out.names)
            /\ (n = 0 => out.kind = "silent" /\ out.lines = <<>>)
            /\ (n >= 1 =>
                   /\ out.kind = "json"
                   /\ Len(NamesShown) = Min(n, 3)
                   /\ NamesShown = SubSeq(out.names, 1, Min(n, 3))
                   /\ (Overflow # <<>>) <=> (n > 3)
                   /\ (n > 3 => Len(Overflow) = 1 /\ Overflow[1].n = n - 3))

\* Four memories are flagged: three are named and the counter says one more.
C17_Witness ==
    /\ HookRead
    /\ out.kind = "json"
    /\ out.names = <<1, 2, 3, 4>>
    /\ NamesShown = <<1, 2, 3>>
    /\ Len(Overflow) = 1

\* C18: the message is never longer than 400 characters.
C18_MessageWithinBudget ==
    (out.cmd = "hook" /\ out.kind = "json") => out.chars <= 400

----------------------------------------------------------------------------
(* Claims about the hook installers, checked under SpecInstall *)

CountMarker(content, marker) ==
    Cardinality({i \in 1..Len(content) : content[i] = marker})

CountSnippet(content, snippet) ==
    Cardinality({i \in 1..(Len(content) - Len(snippet) + 1) :
                    SubSeq(content, i, i + Len(snippet) - 1) = snippet})

InstallRan == inst.mode = "install" /\ inst.runs >= 1

OnceIn(f, who, h) ==
    /\ f.exists
    /\ CountMarker(f.content, MarkerOf(who, h)) = 1
    /\ CountSnippet(f.content, SnippetOf(who, h)) = 1

\* C20 as stated: whatever the hook files held at first, after k >= 1 runs
\* of an installer both files are as they were after its first run, and
\* each holds the installer's marker and snippet exactly once.
C20_InstallOnceWhateverBefore ==
    InstallRan =>
        /\ githooks = inst.first
        /\ \A h \in HookFiles : OnceIn(githooks[h], inst.who, h)

\* The hook file was there for the installer to extend: it existed (or the
\* installer is the one that creates it) and did not hold the marker.
Extensible(who, h) ==
    /\ inst.before[h].exists \/ who = "install_git_hooks"
    /\ ~MarkerIn(MarkerOf(who, h), inst.before[h].content)

\* C20 amended: after k >= 1 runs of an installer both hook files are as
\* they were after its first run; a file that was there to extend and did
\* not hold the marker holds marker and snippet exactly once, and a file
\* that held the marker already, or that install_hooks.py did not find, is
\* as it was before the first run.
C20_InstallIdempotent ==
    InstallRan =>
        /\ githooks = inst.first
        /\ \A h \in HookFiles :
               IF Extensible(inst.who, h)
               THEN OnceIn(githooks[h], inst.who, h)
               ELSE githooks[h] = inst.before[h]

\* The installer ran a third time on hook files that held no marker at
\* first: they hold the snippet once, as after the first run.
C20_Witness ==
    /\ inst.mode = "install"
    /\ inst.runs >= 3
    /\ \A h \in HookFiles :
           /\ Extensible(inst.who, h)
           /\ inst.before[h].exists
           /\ OnceIn(githooks[h], inst.who, h)

\* C21: after an install run that completed, every hook file of .githooks
\* that exists has a copy of the same name and the same content in
\* .git/hooks, whatever .git/hooks held before the run.
C21_InstallActivates ==
    InstallRan =>
        \A h \in HookFiles :
            githooks[h].exists => gitDir.hooks[h] = githooks[h]

\* C29: after --uninstall neither hook file holds its marker, and no
\* snippet is reported removed while its marker is still in the file.
C29_UninstallRemovesMarker ==
    (inst.mode = "uninstall" /\ inst.exit = 0) =>
        \A h \in HookFiles :
            /\ ~is_installed(githooks[h], MarkerOf("install_hooks", h))
            /\ h \in inst.removed =>
                   ~MarkerIn(MarkerOf("install_hooks", h), githooks[h].content)

----------------------------------------------------------------------------
(* Claims about the staleness verdict, checked under SpecHealth *)

\* C27: for postgres-dev and postgres-stack, with the schema script and
\* the schema summary both there, the status is "stale" exactly when the
\* summary is older than one hour, at every age above 3600 seconds, a day
\* or more included.
C27_StaleIffOlderThanHour ==
    healthOut.ran =>
        \A i \in 1..Len(healthOut.results) :
            LET r == healthOut.results[i]
                skill == healthWorld.skill[r.service_name]
            IN  (/\ r.service_name \in {"postgres-dev", "postgres-stack"}
                 /\ skill.exists
                 /\ skill.schema) =>
                    ((r.status = "stale") <=> (skill.age > HourSeconds))

----------------------------------------------------------------------------
(* Claims about the brief-only run, checked under SpecGen *)

\* C26: a brief-only run of generate_skill creates or changes no file of
\* the skill package other than REFINEMENT_BRIEF.md: SKILL.md and the
\* scripts are after the run as they were before it.
C26_BriefOnlyTouchesOnlyBrief ==
    [][(\E update \in BOOLEAN, d \in Descriptions :
            generate_skill("svc", update, TRUE, d)) =>
           (skillMd' = skillMd /\ scripts' = scripts)]_vars

----------------------------------------------------------------------------
\* SpecAgent: one hook process: AgentContext is built from every bounded
\* stdin, then the hook ends with block, allow or fail_open.
AgentInit ==
    /\ GlobIdle
    /\ DriftIdle
    /\ GenIdle
    /\ GitIdle
    /\ HealthIdle
    /\ InstallIdle
    /\ ChangelogIdle
    /\ SettingsIdle
    /\ agentIn \in [stdin : Stdins, gemini_env : BOOLEAN]
    /\ agent = NoAgent
    /\ agentOut = NoAgentOut

AgentNext ==
    /\ UNCHANGED globVars
    /\ UNCHANGED driftVars
    /\ UNCHANGED genVars
    /\ UNCHANGED gitVars
    /\ UNCHANGED healthVars
    /\ UNCHANGED installVars
    /\ UNCHANGED changelogVars
    /\ UNCHANGED settingsVars
    /\ \/ AgentContext_init
       \/ \E reason \in Reasons, system_message \in Messages :
              block(reason, system_message)
       \/ \E system_message \in Messages, additional_context \in Contexts :
              allow(system_message, additional_context)
       \/ fail_open

SpecAgent == AgentInit /\ [][AgentNext]_vars

----------------------------------------------------------------------------
(* Claims about the hook output format, checked under SpecAgent *)

HookSpecificOutput ==
    IF "hookSpecificOutput" \in DOMAIN agentOut.json
    THEN agentOut.json["hookSpecificOutput"]
    ELSE EmptyObject

HasPermissionDecision == "permissionDecision" \in DOMAIN HookSpecificOutput

\* C22: the JSON a hook prints holds hookSpecificOutput.permissionDecision
\* exactly when the event is PreToolUse, "allow" from allow() and "deny"
\* with the reason from block(); on any other event block() prints
\* continue = false with stopReason = the reason; no printed JSON has a
\* top-level "decision" key.
C22_OutputFormat ==
    agentOut.printed =>
        /\ HasPermissionDecision <=> (agent.event = "PreToolUse")
        /\ (HasPermissionDecision /\ agentOut.call = "allow") =>
               HookSpecificOutput["permissionDecision"] = "allow"
        /\ (HasPermissionDecision /\ agentOut.call = "block") =>
               /\ HookSpecificOutput["permissionDecision"] = "deny"
               /\ HookSpecificOutput["permissionDecisionReason"]
                      = agentOut.reason
        /\ (agentOut.call = "block" /\ agent.event # "PreToolUse") =>
               /\ {"continue", "stopReason"} \subseteq DOMAIN agentOut.json
               /\ agentOut.json["continue"] = FALSE
               /\ agentOut.json["stopReason"] = agentOut.reason
        /\ "decision" \notin DOMAIN agentOut.json

\* block() on an event other than PreToolUse printed continue = false.
C22_Witness ==
    /\ agentOut.printed
    /\ agentOut.call = "block"
    /\ agent.event = "UserPromptSubmit"
    /\ agentOut.json["continue"] = FALSE
    /\ ~HasPermissionDecision

----------------------------------------------------------------------------
\* SpecChangelog: entries added to every bounded CHANGELOG.md, by
\* add_entry.py and by the orchestrator, up to MaxCalls times.
InitialLines ==
    { <<Title, "", UnreleasedHeader, "", VersionHeader, "",
        HeaderOf("Added"), "- Initial release">>,
      <<Title, "", UnreleasedHeader, "", HeaderOf("Added"), "- Feature A",
        "", HeaderOf("Fixed"), "- Bug B", "", VersionHeader>>,
      <<Title, "", VersionHeader, "", HeaderOf("Added"),
        "- Initial release">>,
      <<UnreleasedHeader, HeaderOf("Added"), "- Feature A", "">>,
      <<Title, "", UnreleasedHeader, "", PaddedHeader, "- Feature A", "",
        VersionHeader>>,
      <<UnreleasedHeader, HeaderOf("Fixed"), "- Bug B", NestedEntry, Prose,
        VersionHeader, HeaderOf("Added"), "- Initial release">>,
      <<UnreleasedHeader>>,
      <<>> }

\* Each of them with and without a newline at the end of the file.
InitialChangelogs ==
    {NoChangelog}
    \cup {[exists |-> TRUE, text |-> join(lines)] : lines \in InitialLines}
    \cup {[exists |-> TRUE, text |-> join(lines) \o <<NL>>] :
             lines \in InitialLines}

ChangelogInit ==
    /\ GlobIdle
    /\ DriftIdle
    /\ GenIdle
    /\ GitIdle
    /\ HealthIdle
    /\ InstallIdle
    /\ AgentIdle
    /\ SettingsIdle
    /\ changelog \in InitialChangelogs
    /\ chOut = NoChOut
    /\ chCalls = 0

ChangelogNext ==
    /\ UNCHANGED globVars
    /\ UNCHANGED driftVars
    /\ UNCHANGED genVars
    /\ UNCHANGED gitVars
    /\ UNCHANGED healthVars
    /\ UNCHANGED installVars
    /\ UNCHANGED agentVars
    /\ UNCHANGED settingsVars
    /\ \/ \E category \in ChangeCategory, description \in ChangeDescriptions :
              add_entry_main(category, description)
       \/ \E change_type \in ChangeTypes, description \in ChangeDescriptions,
             breaking \in BOOLEAN, errors \in ValidateErrors :
              document_change(change_type, description, breaking, errors)

SpecChangelog == ChangelogInit /\ [][ChangelogNext]_vars

----------------------------------------------------------------------------
(* Claims about the changelog, checked under SpecChangelog *)

\* The last call found the file and its [Unreleased] section, and wrote.
Wrote ==
    /\ chOut.fn # "none"
    /\ chOut.before.exists
    /\ ~add_entry_raises(chOut.before.text)

\* The lines add_entry read, and the lines of the text it returned
\* (result.split("\n"), as the tests read it).
InLines == splitlines(chOut.before.text)
OutLines == SplitNL(changelog.text)

\* The lines without those at the positions P.
Without(lines, P) ==
    LET F[i \in 0..Len(lines)] ==
            IF i = 0 THEN <<>>
            ELSE IF i \in P THEN F[i - 1]
            ELSE Append(F[i - 1], lines[i])
    IN  F[Len(lines)]

\* The positions the new lines can have: the output without them is the
\* input. Either the entry alone, or the entry, a header of the category
\* and an empty line.
AddedAt(in, outl, P) ==
    /\ P \subseteq 1..Len(outl)
    /\ Without(outl, P) = in

EntryPositions(in, outl) ==
    {at \in 1..Len(outl) :
        /\ outl[at] = chOut.entry
        /\ \/ AddedAt(in, outl, {at})
           \/ \E h \in 1..Len(outl), b \in 1..Len(outl) :
                 /\ Cardinality({at, h, b}) = 3
                 /\ outl[h] = HeaderOf(chOut.category)
                 /\ outl[b] = ""
                 /\ AddedAt(in, outl, {at, h, b})}

\* The end of the [Unreleased] section: the first "## [" header after it,
\* or the line after the last.
SectionStart(lines) ==
    MinOf({i \in 1..Len(lines) : lines[i] = UnreleasedHeader})
SectionEnd(lines) ==
    LET S == {i \in (SectionStart(lines) + 1)..Len(lines) :
                 lines[i] \in {UnreleasedHeader, VersionHeader}}
    IN  IF S = {} THEN Len(lines) + 1 ELSE MinOf(S)

\* Position at is directly under a header of the category: only entries
\* lie between that header and it.
DirectlyUnder(lines, at, cat) ==
    \E c \in 1..(at - 1) :
        /\ Strip(lines[c]) = HeaderOf(cat)
        /\ \A k \in (c + 1)..(at - 1) : Strip(lines[k]) \in EntryLines

\* C23: add_entry puts the new entry inside [Unreleased], after the
\* [Unreleased] header and before the next version header or the end of
\* the file, directly under a header of the requested category, which is
\* there whether or not it was before.
C23_EntryInsideUnreleased ==
    Wrote =>
        \E at \in EntryPositions(InLines, OutLines) :
            /\ SectionStart(OutLines) < at
            /\ at < SectionEnd(OutLines)
            /\ \E c \in (SectionStart(OutLines) + 1)..(at - 1) :
                   /\ Strip(OutLines[c]) = HeaderOf(chOut.category)
                   /\ \A k \in (c + 1)..(at - 1) :
                          Strip(OutLines[k]) \in EntryLines

\* An entry was added under a category that [Unreleased] did not have while
\* an older version had it: the header was created in [Unreleased].
C23_Witness ==
    /\ Wrote
    /\ chOut.category = "Added"
    /\ \A i \in (SectionStart(InLines) + 1)..(SectionEnd(InLines) - 1) :
           Strip(InLines[i]) # HeaderOf("Added")
    /\ \E i \in SectionEnd(InLines)..Len(InLines) :
           InLines[i] = HeaderOf("Added")
    /\ \E at \in EntryPositions(InLines, OutLines) : at < SectionEnd(OutLines)

\* The categories of the [Unreleased] section, as add_entry finds them
\* (the stripped line is the header), in the order of their lines.
SectionCategories(lines) ==
    LET idx == SelectSeq([i \in 1..Len(lines) |-> i],
                   LAMBDA i :
                       /\ SectionStart(lines) < i
                       /\ i < SectionEnd(lines)
                       /\ \E cat \in ChangeCategory :
                              Strip(lines[i]) = HeaderOf(cat))
    IN  [k \in 1..Len(idx) |->
            CategoryIndex(CHOOSE cat \in ChangeCategory :
                              Strip(lines[idx[k]]) = HeaderOf(cat))]

\* C24: the categories of [Unreleased] are in the order Added, Changed,
\* Deprecated, Removed, Fixed, Security with none repeated, and every
\* add_entry call keeps them so.
C24_CategoryOrderPreserved ==
    (Wrote /\ StrictlyIncreasing(SectionCategories(InLines))) =>
        StrictlyIncreasing(SectionCategories(OutLines))

\* C25: add_entry keeps what was there: every line of the input is in the
\* output in the same order; the output has besides them only the new
\* entry, and a header and an empty line when the category was missing;
\* the new entry comes after the entries that directly follow the header.
C25_ExistingLinesPreserved ==
    Wrote =>
        LET in == splitlines(chOut.before.text)
            outl == splitlines(changelog.text)
        IN  \E at \in EntryPositions(in, outl) :
                /\ DirectlyUnder(outl, at, chOut.category)
                /\ at < Len(outl) => Strip(outl[at + 1]) \notin EntryLines
                /\ (Len(outl) = Len(in) + 1) <=>
                       (\E i \in (SectionStart(in) + 1)..(SectionEnd(in) - 1) :
                            Strip(in[i]) = HeaderOf(chOut.category))

\* C28: a changelog with no [Unreleased] section: add_entry raises,
\* add_entry_to_file leaves the file as it was, and document_change
\* returns changelog_updated false with the failure in validation_errors
\* and raises nothing.
C28_MissingUnreleasedIsReported ==
    (/\ chOut.fn # "none"
     /\ chOut.before.exists
     /\ add_entry_raises(chOut.before.text)) =>
        /\ changelog = chOut.before
        /\ chOut.fn = "add_entry_to_file" => chOut.raised = "ValueError"
        /\ chOut.fn = "document_change" =>
               /\ chOut.raised = ""
               /\ ~chOut.result.changelog_updated
               /\ \E i \in 1..Len(chOut.result.validation_errors) :
                      chOut.result.validation_errors[i] = UpdateFailed

\* document_change met a changelog with a released version and no
\* [Unreleased] section, and reported the failure.
C28_Witness ==
    /\ chOut.fn = "document_change"
    /\ chOut.before.exists
    /\ \E i \in 1..Len(InLines) : InLines[i] = VersionHeader
    /\ add_entry_raises(chOut.before.text)
    /\ ~chOut.result.changelog_updated
    /\ chOut.result.validation_errors[1] = UpdateFailed
    /\ changelog = chOut.before

----------------------------------------------------------------------------
\* SpecSettings: install_settings run again and again on every bounded
\* settings.json.
SettingsData ==
    {EmptyObject, Permissions :> UserConfig}
    \cup {"hooks" :> h : h \in HooksObjects \cup {HooksArray}}
    \cup {(Permissions :> UserConfig) @@ ("hooks" :> h) :
             h \in HooksObjects \cup {HooksArray}}

InitialSettings ==
    {NoSettings, SettingsFile("array", EmptyObject)}
    \cup {SettingsFile(kind, data) :
             kind \in {"object", "malformed"}, data \in SettingsData}

SettingsInit ==
    /\ GlobIdle
    /\ DriftIdle
    /\ GenIdle
    /\ GitIdle
    /\ HealthIdle
    /\ InstallIdle
    /\ AgentIdle
    /\ ChangelogIdle
    /\ settings \in InitialSettings
    /\ setOut = NoSetOut

SettingsNext ==
    /\ UNCHANGED globVars
    /\ UNCHANGED driftVars
    /\ UNCHANGED genVars
    /\ UNCHANGED gitVars
    /\ UNCHANGED healthVars
    /\ UNCHANGED installVars
    /\ UNCHANGED agentVars
    /\ UNCHANGED changelogVars
    /\ install_settings

SpecSettings == SettingsInit /\ [][SettingsNext]_vars

----------------------------------------------------------------------------
(* Claims about settings.json, checked under SpecSettings *)

\* Every key of the data before is a key after with the same value, and
\* for "hooks" every event configured before has the configuration it had.
Kept(before, after) ==
    \A k \in DOMAIN before :
        /\ k \in DOMAIN after
        /\ IF k = "hooks" /\ before[k] # HooksArray /\ after[k] # HooksArray
           THEN \A e \in DOMAIN before[k] :
                    e \in DOMAIN after[k] /\ after[k][e] = before[k][e]
           ELSE after[k] = before[k]

\* C30: install_settings only adds what is missing: whatever settings.json
\* held before (valid JSON, malformed JSON, hook events already there),
\* what it held is still in it and unchanged, and only hook events that
\* were absent are added.
C30_SettingsOnlyAdds ==
    (setOut.ran /\ setOut.before.exists) =>
        /\ settings.exists
        /\ Kept(setOut.before.data, settings.data)
        /\ \A e \in setOut.added :
               ~("hooks" \in DOMAIN setOut.before.data
                 /\ setOut.before.data["hooks"] # HooksArray
                 /\ e \in DOMAIN setOut.before.data["hooks"])

====
